---- MODULE Spec2Model ----
(***************************************************************************)
(* The retrieval subsystem of the Lumpy extension: the IndexedDB store of *)
(* ragDb.ts, the vector helpers of ragMath.ts and the background message  *)
(* handlers RAG_INDEX_DOCUMENT, RAG_DELETE_DOCUMENT and RAG_SEARCH.       *)
(*                                                                         *)
(* A request is handled by an async closure; the code between two awaits  *)
(* runs without interruption, so every action below is the code from one  *)
(* await to the next.  An IndexedDB transaction keeps its writes private  *)
(* until it commits and holds its object stores while it is alive.        *)
(***************************************************************************)
EXTENDS Integers, Sequences, FiniteSets, TLC

VARIABLES
    documents,      \* object store "documents": id -> RagDocument
    chunks,         \* object store "chunks": id -> RagChunk
    tx,             \* per request: its live readwrite transaction
    now,            \* Date.now(); advances with every message received
    pc,             \* per request: the await the handler is suspended at
    req,            \* per request: the message being handled
    resp,           \* per request: what sendResponse was called with
    loopI,          \* RAG_INDEX_DOCUMENT: the batch loop's i
    chunkRecords,   \* RAG_INDEX_DOCUMENT: chunkRecords
    docRecord,      \* RAG_INDEX_DOCUMENT: docRecord
    calls,          \* per request: its calls of the embedding provider, in order
    docs,           \* RAG_SEARCH: docs, the ids searched
    docNameById,    \* RAG_SEARCH: docNameById
    qVec,           \* RAG_SEARCH: q, the normalized query vector
    cands,          \* RAG_SEARCH: chunks, what getChunksForDocs returned
    before,         \* serial runs: the store and the last answer when the message arrived
    last,           \* the request answered last, with its answer
    upload,         \* options page: the pages of the file in hand and their chunks
    content         \* content script: runningRef, lastRunPromptMsgRef, the prompts triggered

storeVars == <<documents, chunks>>
indexVars == <<loopI, chunkRecords, docRecord>>
searchVars == <<docs, docNameById, qVec, cands>>
handlerVars == <<loopI, chunkRecords, docRecord, calls, searchVars>>
vars == <<documents, chunks, tx, now, pc, req, resp, loopI, chunkRecords,
          docRecord, calls, docs, docNameById, qVec, cands, before, upload, content, last>>

-----------------------------------------------------------------------------
(* Bounds of the model *)

\* messages received in one behaviour with overlapping requests
MaxTime == 3
\* messages received in one behaviour with one request at a time
MaxSerial == 2
\* the longest chunk list of a request, in batches of BATCH
MaxBatches == 3

-----------------------------------------------------------------------------
(* Program constants *)

BATCH == 32
EMBEDDING_MODEL == "openai/text-embedding-3-small"

-----------------------------------------------------------------------------
(* Values *)

Procs == {"r1", "r2"}
Bytes == {"b1", "b2"}

Min(a, b) == IF a <= b THEN a ELSE b
Max(a, b) == IF a >= b THEN a ELSE b

\* crypto.subtle.digest + bytesToHex: one fixed-length id per content
sha256Hex(data) == IF data = "b1" THEN "d1" ELSE "d2"

DocIds == {sha256Hex(b) : b \in Bytes}

\* Math.sqrt on the sums of squares the model's vectors have (exact roots)
Sqrt(n) ==
    LET RECURSIVE Root(_, _)
        Root(lo, hi) ==
            IF lo = hi THEN lo
            ELSE LET mid == (lo + hi + 1) \div 2
                 IN IF mid * mid <= n THEN Root(mid, hi) ELSE Root(lo, mid - 1)
    IN Root(0, n)

SumSq(vec) ==
    LET RECURSIVE S(_)
        S(k) == IF k = 0 THEN 0 ELSE S(k - 1) + vec[k] * vec[k]
    IN S(Len(vec))

\* toNormalizedF32 without the guard of the divisor
toNormalizedF32NoGuard(vec) == [num |-> vec, den |-> Sqrt(SumSq(vec))]

\* ragMath.ts toNormalizedF32: out[i] = vec[i] / (Math.sqrt(sumSq) || 1).
\* The quotient is kept exact: the numerators with their common divisor.
toNormalizedF32(vec) ==
    LET norm == IF Sqrt(SumSq(vec)) = 0 THEN 1 ELSE Sqrt(SumSq(vec))
    IN [num |-> vec, den |-> norm]

\* the chunk list onUploadPdf sends: ids `${docId}:${i}`, i from 0
ChunkList(docId, ver, n) ==
    [j \in 1..n |-> [id |-> <<docId, j - 1>>, pageStart |-> j, pageEnd |-> j,
                     text |-> <<ver, j - 1>>]]

\* chunkPages(extractPdfText(file)).length for the model's two contents
NumChunksOf(data) == IF data = "b1" THEN 2 ELSE 1

\* options page, onUploadPdf: the RAG_INDEX_DOCUMENT message of one file
onUploadPdf(file) ==
    LET docId == sha256Hex(file.bytes)
    IN [type |-> "RAG_INDEX_DOCUMENT", apiKey |-> "key",
        doc |-> [id |-> docId, name |-> file.name],
        chunks |-> ChunkList(docId, file.bytes, NumChunksOf(file.bytes))]

Files == {[bytes |-> "b1", name |-> "a.pdf"], [bytes |-> "b1", name |-> "b.pdf"],
          [bytes |-> "b2", name |-> "a.pdf"]}

IndexMsg(docId, name, ver, n) ==
    [type |-> "RAG_INDEX_DOCUMENT", apiKey |-> "key",
     doc |-> [id |-> docId, name |-> name],
     chunks |-> ChunkList(docId, ver, n)]

DeleteMsg(docId) == [type |-> "RAG_DELETE_DOCUMENT", docId |-> docId]

SearchMsg(query, k, docIds) ==
    [type |-> "RAG_SEARCH", apiKey |-> "key", query |-> query, topK |-> k,
     docIds |-> docIds]

\* a RAG_SEARCH message without the optional docIds, as the content script
\* sends it
SearchAllMsg(query, k) ==
    [type |-> "RAG_SEARCH", apiKey |-> "key", query |-> query, topK |-> k]

\* the options page asks for the document list
ListMsg == [type |-> "RAG_LIST_DOCUMENTS"]

\* a message of a type the listener has no case for
OtherMsg == [type |-> "PING"]

NoMsg == [type |-> "none"]
NoResp == [ok |-> FALSE, error |-> "pending"]
NoDoc == [id |-> "none"]
NoVec == [num |-> <<>>, den |-> 1]
NoLast == [req |-> NoMsg, resp |-> NoResp]
NoTx == [scope |-> {}, docDeletes |-> {}, chunkDeletes |-> {}, chunkPuts |-> <<>>]
NoUpload == [pages |-> <<>>, maxChars |-> 0, overlapChars |-> 0, chunks |-> <<>>,
             done |-> FALSE]

\* the content script before any message: the refs and the state of the popup
NoPrompt == [id |-> "none"]
NoLastMsg == [promptId |-> "none", at |-> 0]
NoRetry == [prompt |-> NoPrompt, apiKey |-> ""]
NoContent ==
    [runningRef |-> FALSE, apiKeyRef |-> "", lastRunPromptMsgRef |-> NoLastMsg,
     clock |-> 0, visible |-> FALSE, mode |-> "idle", activePrompt |-> NoPrompt,
     inputText |-> "", areaImageDataUrl |-> FALSE, tasks |-> <<>>,
     commands |-> 0, retry |-> NoRetry, triggered |-> 0]

\* ragMath.ts cosineDot: the dot product over the first min(len) components,
\* of two quotients: the numerators' product sum over the divisors' product
cosineDot(a, b) ==
    LET n == Min(Len(a.num), Len(b.num))
        RECURSIVE S(_)
        S(k) == IF k = 0 THEN 0 ELSE S(k - 1) + a.num[k] * b.num[k]
    IN [num |-> S(n), den |-> a.den * b.den]

\* x > y and x = y on scores (the divisors are positive)
Greater(x, y) == x.num * y.den > y.num * x.den
SameScore(x, y) == x.num * y.den = y.num * x.den

-----------------------------------------------------------------------------
(* ragDb.ts: the store *)

\* db.put("documents", doc): upsert by id
putDocument(dstore, doc) ==
    [id \in DOMAIN dstore \cup {doc.id} |-> IF id = doc.id THEN doc ELSE dstore[id]]

\* string order of the model's two document ids
DocLess(x, y) == x = "d1" /\ y = "d2"

\* db.getAll("documents"): the records in key order
RECURSIVE SortedIds(_)
SortedIds(S) ==
    IF S = {} THEN <<>>
    ELSE LET m == CHOOSE x \in S : \A y \in S : x = y \/ DocLess(x, y)
         IN <<m>> \o SortedIds(S \ {m})

listDocuments(dstore) ==
    LET ids == SortedIds(DOMAIN dstore) IN [j \in 1..Len(ids) |-> dstore[ids[j]]]

\* the chunk ids the index byDocId holds under docId
ByDocId(ch, docId) == {id \in DOMAIN ch : ch[id].docId = docId}

\* the decimal digits of a chunk's sequential index, as the key string has them
RECURSIVE Digits(_)
Digits(n) == IF n < 10 THEN <<n>> ELSE Append(Digits(n \div 10), n % 10)

\* string order of two digit strings
RECURSIVE StrLess(_, _)
StrLess(s, t) ==
    IF Len(s) = 0 THEN Len(t) > 0
    ELSE IF Len(t) = 0 THEN FALSE
    ELSE IF Head(s) # Head(t) THEN Head(s) < Head(t)
    ELSE StrLess(Tail(s), Tail(t))

\* key order of two chunk ids `${docId}:${i}` of one document
KeyLess(a, b) == StrLess(Digits(a[2]), Digits(b[2]))

\* string order of two chunk ids
IdLess(a, b) == DocLess(a[1], b[1]) \/ (a[1] = b[1] /\ KeyLess(a, b))

\* idx.iterate(IDBKeyRange.only(docId)): the chunks of docId in key order
RECURSIVE InKeyOrder(_, _)
InKeyOrder(ch, ids) ==
    IF ids = {} THEN <<>>
    ELSE LET m == CHOOSE x \in ids : \A y \in ids : x = y \/ KeyLess(x, y)
         IN <<ch[m]>> \o InKeyOrder(ch, ids \ {m})

\* getChunksForDocs: one readonly transaction, the ids in the order given
RECURSIVE getChunksForDocs(_, _)
getChunksForDocs(ch, docIds) ==
    IF Len(docIds) = 0 THEN <<>>
    ELSE InKeyOrder(ch, ByDocId(ch, Head(docIds))) \o getChunksForDocs(ch, Tail(docIds))

\* the last put of an id in a transaction's queue wins
LastPut(puts, id) ==
    puts[CHOOSE j \in DOMAIN puts :
            puts[j].id = id /\ \A k \in DOMAIN puts : puts[k].id = id => k <= j]

\* tx.done of a transaction: its writes reach the object stores together
CommitDocuments(dstore, t) == [id \in DOMAIN dstore \ t.docDeletes |-> dstore[id]]

CommitChunks(ch, t) ==
    LET putIds == {t.chunkPuts[j].id : j \in DOMAIN t.chunkPuts}
    IN [id \in (DOMAIN ch \ t.chunkDeletes) \cup putIds |->
           IF id \in putIds THEN LastPut(t.chunkPuts, id) ELSE ch[id]]

\* a live readwrite transaction holds every object store of its scope
Locked(name) == \E q \in Procs : name \in tx[q].scope

-----------------------------------------------------------------------------
(* The embedding provider *)

\* the vectors the provider answers with: all of them in the serial runs, one
\* in the runs with overlapping requests
RawVectors == {<<3, 4>>, <<0, 5>>}
OneVector == {<<3, 4>>}

\* a provider: the vectors it answers with, and by how many its data[] may be
\* longer than the inputs it was sent
Provider(vectors, extra) == [vectors |-> vectors, extra |-> extra]

\* the vector of a response at position j: v stretched by j, so that the
\* vectors of one response differ and their norms stay whole numbers
Times(v, j) == [i \in DOMAIN v |-> v[i] * j]

\* openRouterEmbeddings: an HTTP failure throws; otherwise data[].embedding,
\* as many as the response holds
openRouterEmbeddings(inputs, provider) ==
    {[ok |-> FALSE, error |-> "Embeddings HTTP 500"]}
    \cup {[ok |-> TRUE, data |-> [j \in 1..Max(0, Len(inputs) + d) |-> Times(v, j)]] :
              v \in provider.vectors, d \in provider.extra}

-----------------------------------------------------------------------------
(* background onMessage listener *)

\* .then((res) => sendResponse(res))
Respond(p, r) ==
    /\ pc' = [pc EXCEPT ![p] = "done"]
    /\ resp' = [resp EXCEPT ![p] = r]
    /\ last' = [req |-> req[p], resp |-> r]

\* Throw with the rejection left unhandled: no response is sent
ThrowSwallowed(p, message) ==
    /\ pc' = [pc EXCEPT ![p] = "rejected"]
    /\ UNCHANGED <<resp, last>>

\* .catch((err) => sendResponse({ ok: false, error: err.message }))
Throw(p, message) == Respond(p, [ok |-> FALSE, error |-> message])

\* String.prototype.trim on the model's query strings
Trim(str) == IF str \in {"", " "} THEN "" ELSE str

\* Validate with every check dropped
ValidateNothing(m) == "ok"

\* the synchronous checks of a handler, up to its first await
Validate(m) ==
    CASE m.type = "RAG_DELETE_DOCUMENT" ->
           IF m.docId = "" THEN "Missing docId" ELSE "ok"
      [] m.type = "RAG_INDEX_DOCUMENT" ->
           IF m.apiKey = "" THEN "Missing apiKey"
           ELSE IF m.doc.id = "" \/ m.doc.name = "" THEN "Missing doc"
           ELSE IF Len(m.chunks) = 0 THEN "No chunks" ELSE "ok"
      [] m.type = "RAG_SEARCH" ->
           IF m.apiKey = "" THEN "Missing apiKey"
           ELSE IF Trim(m.query) = "" THEN "Missing query" ELSE "ok"
      [] m.type = "RAG_LIST_DOCUMENTS" -> "ok"
      [] OTHER -> "Unknown message type"

FirstAwait(m) ==
    CASE m.type = "RAG_DELETE_DOCUMENT" -> "deleteDocument"
      [] m.type = "RAG_INDEX_DOCUMENT" -> "embed"
      [] m.type = "RAG_SEARCH" -> "listDocuments"
      [] m.type = "RAG_LIST_DOCUMENTS" -> "listAll"
      [] OTHER -> "done"

\* a message arrives: the listener starts the handler
Receive(p, m, limit) ==
    /\ pc[p] \in {"idle", "done"}
    /\ now < limit
    /\ now' = now + 1
    /\ req' = [req EXCEPT ![p] = m]
    /\ loopI' = [loopI EXCEPT ![p] = 0]
    /\ chunkRecords' = [chunkRecords EXCEPT ![p] = <<>>]
    /\ docRecord' = [docRecord EXCEPT ![p] = NoDoc]
    /\ calls' = [calls EXCEPT ![p] = <<>>]
    /\ docs' = [docs EXCEPT ![p] = <<>>]
    /\ docNameById' = [docNameById EXCEPT ![p] = <<>>]
    /\ qVec' = [qVec EXCEPT ![p] = NoVec]
    /\ cands' = [cands EXCEPT ![p] = <<>>]
    /\ IF Validate(m) = "ok"
         THEN /\ pc' = [pc EXCEPT ![p] = FirstAwait(m)]
              /\ resp' = [resp EXCEPT ![p] = NoResp]
              /\ last' = last
         ELSE /\ pc' = [pc EXCEPT ![p] = "done"]
              /\ resp' = [resp EXCEPT ![p] = [ok |-> FALSE, error |-> Validate(m)]]
              /\ last' = [req |-> m, resp |-> [ok |-> FALSE, error |-> Validate(m)]]
    /\ UNCHANGED <<storeVars, tx>>

(* RAG_INDEX_DOCUMENT *)

\* BatchRecords with chunk ids made unique per run by the time of the run
BatchRecordsStampedIds(m, batch, embeddings, t) ==
    [j \in 1..Len(batch) |->
        [id |-> <<batch[j].id[1], batch[j].id[2] + 10 * t>>, docId |-> m.doc.id,
         createdAt |-> t, pageStart |-> batch[j].pageStart,
         pageEnd |-> batch[j].pageEnd, text |-> batch[j].text,
         embeddingF32 |-> toNormalizedF32(embeddings[j])]]

\* BatchRecords with the message kept in a variable the handlers share: the
\* records get the document id of the message received last
BatchRecordsSharedMessage(m, batch, embeddings, t) ==
    [j \in 1..Len(batch) |->
        [id |-> batch[j].id,
         docId |-> IF req["r2"].type = "RAG_INDEX_DOCUMENT" THEN req["r2"].doc.id
                   ELSE m.doc.id,
         createdAt |-> t, pageStart |-> batch[j].pageStart,
         pageEnd |-> batch[j].pageEnd, text |-> batch[j].text,
         embeddingF32 |-> toNormalizedF32(embeddings[j])]]

\* BatchRecords with the vectors of a batch taken from its end
BatchRecordsReversed(m, batch, embeddings, t) ==
    [j \in 1..Len(batch) |->
        [id |-> batch[j].id, docId |-> m.doc.id, createdAt |-> t,
         pageStart |-> batch[j].pageStart, pageEnd |-> batch[j].pageEnd,
         text |-> batch[j].text,
         embeddingF32 |-> toNormalizedF32(embeddings[Len(batch) + 1 - j])]]

\* the records one batch adds to chunkRecords
BatchRecords(m, batch, embeddings, t) ==
    [j \in 1..Len(batch) |->
        [id |-> batch[j].id, docId |-> m.doc.id, createdAt |-> t,
         pageStart |-> batch[j].pageStart, pageEnd |-> batch[j].pageEnd,
         text |-> batch[j].text, embeddingF32 |-> toNormalizedF32(embeddings[j])]]

MakeDocRecord(m, records, t) ==
    [id |-> m.doc.id, name |-> m.doc.name, createdAt |-> t,
     embeddingModel |-> EMBEDDING_MODEL, chunkCount |-> Len(records)]

\* EmbedFailed with the error swallowed: the run goes on to persist the
\* batches it has
EmbedFailedKeepsPartial(p, reply) ==
    /\ pc' = [pc EXCEPT ![p] = "putDocument"]
    /\ docRecord' = [docRecord EXCEPT ![p] = MakeDocRecord(req[p], chunkRecords[p], now)]
    /\ UNCHANGED <<storeVars, tx, now, req, resp, last, loopI, chunkRecords, searchVars>>

\* EmbedFailed with the failed batch sent again
EmbedFailedRetries(p, reply) ==
    UNCHANGED <<storeVars, tx, now, pc, req, resp, last, indexVars, searchVars>>

\* what the handler does when the provider call of a batch throws
EmbedFailed(p, reply) ==
    /\ Throw(p, reply.error)
    /\ UNCHANGED <<storeVars, tx, now, req, indexVars, searchVars>>

\* what the handler does with the embeddings of a batch
EmbedSucceeded(p, reply) ==
    LET m == req[p]
        batch == SubSeq(m.chunks, loopI[p] + 1, Min(loopI[p] + BATCH, Len(m.chunks)))
        records == chunkRecords[p] \o BatchRecords(m, batch, reply.data, now)
        next == loopI[p] + BATCH
    IN /\ chunkRecords' = [chunkRecords EXCEPT ![p] = records]
       /\ loopI' = [loopI EXCEPT ![p] = next]
       /\ IF next < Len(m.chunks)
            THEN /\ pc' = pc
                 /\ docRecord' = docRecord
            ELSE /\ pc' = [pc EXCEPT ![p] = "putDocument"]
                 /\ docRecord' = [docRecord EXCEPT ![p] = MakeDocRecord(m, records, now)]
       /\ UNCHANGED <<storeVars, tx, now, req, resp, last, searchVars>>

\* the entry of calls for one provider call: where its batch starts, whether
\* the call returned, the inputs sent and the vectors received
Call(start, inputs, reply) ==
    [start |-> start, ok |-> reply.ok, inputs |-> Len(inputs),
     vectors |-> IF reply.ok THEN Len(reply.data) ELSE 0,
     data |-> IF reply.ok THEN reply.data ELSE <<>>]

\* toNormalizedF32(undefined) throws on vec.length
TypeError == [ok |-> FALSE,
              error |-> "Cannot read properties of undefined (reading 'length')"]

\* one turn of the batch loop: await openRouterEmbeddings(batch texts); a
\* response shorter than the batch leaves embeddings[j] undefined
EmbedBatch(p, provider) ==
    /\ pc[p] = "embed"
    /\ LET m == req[p]
           batch == SubSeq(m.chunks, loopI[p] + 1, Min(loopI[p] + BATCH, Len(m.chunks)))
           inputs == [j \in 1..Len(batch) |-> batch[j].text]
       IN \E reply \in openRouterEmbeddings(inputs, provider) :
            /\ calls' = [calls EXCEPT ![p] = Append(@, Call(loopI[p], inputs, reply))]
            /\ IF ~reply.ok THEN EmbedFailed(p, reply)
               ELSE IF Len(reply.data) < Len(batch) THEN EmbedFailed(p, TypeError)
               ELSE EmbedSucceeded(p, reply)
            /\ UNCHANGED <<before, upload, content>>

\* await putDocument(docRecord): one transaction of its own
PutDocument(p) ==
    /\ pc[p] = "putDocument"
    /\ ~Locked("documents")
    /\ documents' = putDocument(documents, docRecord[p])
    /\ pc' = [pc EXCEPT ![p] = "putChunks"]
    /\ UNCHANGED <<chunks, tx, now, req, resp, handlerVars, before, upload, content, last>>

\* db.put rejects (quota, store unavailable): nothing is written
PutDocumentFails(p) ==
    /\ pc[p] = "putDocument"
    /\ ~Locked("documents")
    /\ Throw(p, "StorageError")
    /\ UNCHANGED <<storeVars, tx, now, req, handlerVars, before, upload, content>>

\* PutChunksBegin with the first put committed on its own, before the
\* transaction of the others
PutChunksBeginPutByPut(p) ==
    /\ pc[p] = "putChunks"
    /\ ~Locked("chunks")
    /\ chunks' = CommitChunks(chunks,
                              [NoTx EXCEPT !.chunkPuts = <<Head(chunkRecords[p])>>])
    /\ tx' = [tx EXCEPT ![p] = [NoTx EXCEPT !.scope = {"chunks"},
                                            !.chunkPuts = Tail(chunkRecords[p])]]
    /\ pc' = [pc EXCEPT ![p] = "putChunksDone"]
    /\ UNCHANGED <<documents, now, req, resp, handlerVars, before, upload, content, last>>

\* putChunks: db.transaction("chunks", "readwrite") and the loop of puts
PutChunksBegin(p) ==
    /\ pc[p] = "putChunks"
    /\ ~Locked("chunks")
    /\ tx' = [tx EXCEPT ![p] = [NoTx EXCEPT !.scope = {"chunks"},
                                            !.chunkPuts = chunkRecords[p]]]
    /\ pc' = [pc EXCEPT ![p] = "putChunksDone"]
    /\ UNCHANGED <<storeVars, now, req, resp, handlerVars, before, upload, content, last>>

\* putChunks: await tx.done, then the handler returns ok
PutChunksCommit(p) ==
    /\ pc[p] = "putChunksDone"
    /\ chunks' = CommitChunks(chunks, tx[p])
    /\ tx' = [tx EXCEPT ![p] = NoTx]
    /\ Respond(p, [ok |-> TRUE, docId |-> req[p].doc.id,
                   chunkCount |-> Len(chunkRecords[p])])
    /\ UNCHANGED <<documents, now, req, handlerVars, before, upload, content>>

(* RAG_DELETE_DOCUMENT *)

\* DeleteBegin with the record deleted in a transaction of its own, before
\* the transaction that deletes the chunks
DeleteBeginOwnTransaction(p) ==
    /\ pc[p] = "deleteDocument"
    /\ ~Locked("documents") /\ ~Locked("chunks")
    /\ documents' = CommitDocuments(documents,
                                    [NoTx EXCEPT !.docDeletes = {req[p].docId}])
    /\ tx' = [tx EXCEPT ![p] = [NoTx EXCEPT !.scope = {"chunks"}]]
    /\ pc' = [pc EXCEPT ![p] = "deleteCursor"]
    /\ UNCHANGED <<chunks, now, req, resp, handlerVars, before, upload, content, last>>

\* deleteDocument: db.transaction(["documents","chunks"]) and the doc delete
DeleteBegin(p) ==
    /\ pc[p] = "deleteDocument"
    /\ ~Locked("documents") /\ ~Locked("chunks")
    /\ tx' = [tx EXCEPT ![p] = [NoTx EXCEPT !.scope = {"documents", "chunks"},
                                            !.docDeletes = {req[p].docId}]]
    /\ pc' = [pc EXCEPT ![p] = "deleteCursor"]
    /\ UNCHANGED <<storeVars, now, req, resp, handlerVars, before, upload, content, last>>

\* DeleteCursor with a cursor that stops behind the first chunk
DeleteCursorFirstOnly(p) ==
    /\ pc[p] = "deleteCursor"
    /\ tx' = [tx EXCEPT ![p].chunkDeletes =
                  {id \in ByDocId(chunks, req[p].docId) :
                      \A other \in ByDocId(chunks, req[p].docId) :
                          other = id \/ KeyLess(id, other)}]
    /\ pc' = [pc EXCEPT ![p] = "deleteDone"]
    /\ UNCHANGED <<storeVars, now, req, resp, handlerVars, before, upload, content, last>>

\* deleteDocument: the cursor over byDocId deletes every chunk of the id
DeleteCursor(p) ==
    /\ pc[p] = "deleteCursor"
    /\ tx' = [tx EXCEPT ![p].chunkDeletes = ByDocId(chunks, req[p].docId)]
    /\ pc' = [pc EXCEPT ![p] = "deleteDone"]
    /\ UNCHANGED <<storeVars, now, req, resp, handlerVars, before, upload, content, last>>

\* deleteDocument: await tx.done, then the handler returns ok
DeleteCommit(p) ==
    /\ pc[p] = "deleteDone"
    /\ documents' = CommitDocuments(documents, tx[p])
    /\ chunks' = CommitChunks(chunks, tx[p])
    /\ tx' = [tx EXCEPT ![p] = NoTx]
    /\ Respond(p, [ok |-> TRUE])
    /\ UNCHANGED <<now, req, handlerVars, before, upload, content>>

(* RAG_SEARCH *)

\* Math.max(1, Math.min(20, Number(m.topK) || 6))
topK(m) == Max(1, Min(20, IF m.topK = 0 THEN 6 ELSE m.topK))

\* Array.prototype.sort((a, b) => b.score - a.score): stable, descending; an
\* element goes behind every element whose score is not lower than its own
RECURSIVE InsertByScore(_, _)
InsertByScore(s, x) ==
    IF s = <<>> THEN <<x>>
    ELSE IF Greater(x.score, Head(s).score) THEN <<x>> \o s
    ELSE <<Head(s)>> \o InsertByScore(Tail(s), x)

RECURSIVE SortByScore(_)
SortByScore(s) ==
    IF Len(s) <= 1 THEN s
    ELSE InsertByScore(SortByScore(SubSeq(s, 1, Len(s) - 1)), s[Len(s)])

\* the hit the loop builds for chunk c
Hit(c, q, names) ==
    [docId |-> c.docId,
     docName |-> IF c.docId \in DOMAIN names THEN names[c.docId] ELSE "undefined",
     chunkId |-> c.id, score |-> cosineDot(q, c.embeddingF32),
     pageStart |-> c.pageStart, pageEnd |-> c.pageEnd, text |-> c.text]

\* KeepBest without the else branch: once k hits are kept none is replaced
KeepBestNoReplace(best, hit, k) ==
    IF Len(best) < k THEN SortByScore(Append(best, hit)) ELSE best

\* the body of the top-K loop for one chunk
KeepBest(best, hit, k) ==
    IF Len(best) < k THEN SortByScore(Append(best, hit))
    ELSE IF Greater(hit.score, best[Len(best)].score)
      THEN SortByScore([best EXCEPT ![Len(best)] = hit])
    ELSE best

\* for (const c of chunks) { ... }
RECURSIVE TopKLoop(_, _, _, _)
TopKLoop(cs, q, k, names) ==
    IF cs = <<>> THEN <<>>
    ELSE KeepBest(TopKLoop(SubSeq(cs, 1, Len(cs) - 1), q, k, names),
                  Hit(cs[Len(cs)], q, names), k)

\* SearchList with the docIds of the message ignored: every document is searched
SearchListAllDocs(p) ==
    /\ pc[p] = "listDocuments"
    /\ ~Locked("documents")
    /\ LET allDocs == listDocuments(documents)
           ids == [j \in 1..Len(allDocs) |-> allDocs[j].id]
       IN /\ docs' = [docs EXCEPT ![p] = ids]
          /\ docNameById' = [docNameById EXCEPT ![p] =
                                [d \in DOMAIN documents |-> documents[d].name]]
          /\ IF Len(ids) = 0
               THEN Respond(p, [ok |-> TRUE, hits |-> <<>>])
               ELSE /\ pc' = [pc EXCEPT ![p] = "embedQuery"]
                    /\ UNCHANGED <<resp, last>>
    /\ UNCHANGED <<storeVars, tx, now, req, indexVars, calls, qVec, cands, before, upload, content>>

\* SearchList with an empty id list treated as an error
SearchListEmptyFails(p) ==
    /\ pc[p] = "listDocuments"
    /\ ~Locked("documents")
    /\ LET m == req[p]
           allDocs == listDocuments(documents)
           ids == IF "docIds" \in DOMAIN m /\ Len(m.docIds) > 0 THEN m.docIds
                  ELSE [j \in 1..Len(allDocs) |-> allDocs[j].id]
       IN /\ docs' = [docs EXCEPT ![p] = ids]
          /\ docNameById' = [docNameById EXCEPT ![p] =
                                [d \in DOMAIN documents |-> documents[d].name]]
          /\ IF Len(ids) = 0
               THEN Throw(p, "No documents")
               ELSE /\ pc' = [pc EXCEPT ![p] = "embedQuery"]
                    /\ UNCHANGED <<resp, last>>
    /\ UNCHANGED <<storeVars, tx, now, req, indexVars, calls, qVec, cands, before, upload, content>>

\* await listDocuments(), the ids to search, docNameById
SearchList(p) ==
    /\ pc[p] = "listDocuments"
    /\ ~Locked("documents")
    /\ LET m == req[p]
           allDocs == listDocuments(documents)
           ids == IF "docIds" \in DOMAIN m /\ Len(m.docIds) > 0 THEN m.docIds
                  ELSE [j \in 1..Len(allDocs) |-> allDocs[j].id]
       IN /\ docs' = [docs EXCEPT ![p] = ids]
          /\ docNameById' = [docNameById EXCEPT ![p] =
                                [d \in DOMAIN documents |-> documents[d].name]]
          /\ IF Len(ids) = 0
               THEN Respond(p, [ok |-> TRUE, hits |-> <<>>])
               ELSE /\ pc' = [pc EXCEPT ![p] = "embedQuery"]
                    /\ UNCHANGED <<resp, last>>
    /\ UNCHANGED <<storeVars, tx, now, req, indexVars, calls, qVec, cands, before, upload, content>>

\* SearchEmbed with a failed provider call answered by an empty hit list
SearchEmbedFallback(p, provider) ==
    /\ pc[p] = "embedQuery"
    /\ \E reply \in openRouterEmbeddings(<<req[p].query>>, provider) :
          /\ calls' = [calls EXCEPT ![p] =
                           Append(@, Call(0, <<req[p].query>>, reply))]
          /\ IF ~reply.ok \/ Len(reply.data) = 0
               THEN /\ Respond(p, [ok |-> TRUE, hits |-> <<>>])
                    /\ UNCHANGED qVec
               ELSE /\ qVec' = [qVec EXCEPT ![p] = toNormalizedF32(reply.data[1])]
                    /\ pc' = [pc EXCEPT ![p] = "getChunksForDocs"]
                    /\ UNCHANGED <<resp, last>>
    /\ UNCHANGED <<storeVars, tx, now, req, indexVars, docs, docNameById, cands, before, upload, content>>

\* await openRouterEmbeddings(m.apiKey, [m.query]) and toNormalizedF32 of
\* the first vector; with no vector queryEmb is undefined
SearchEmbed(p, provider) ==
    /\ pc[p] = "embedQuery"
    /\ \E reply \in openRouterEmbeddings(<<req[p].query>>, provider) :
          /\ calls' = [calls EXCEPT ![p] =
                           Append(@, Call(0, <<req[p].query>>, reply))]
          /\ IF ~reply.ok
               THEN /\ Throw(p, reply.error)
                    /\ UNCHANGED qVec
               ELSE IF Len(reply.data) = 0
               THEN /\ Throw(p, TypeError.error)
                    /\ UNCHANGED qVec
               ELSE /\ qVec' = [qVec EXCEPT ![p] = toNormalizedF32(reply.data[1])]
                    /\ pc' = [pc EXCEPT ![p] = "getChunksForDocs"]
                    /\ UNCHANGED <<resp, last>>
    /\ UNCHANGED <<storeVars, tx, now, req, indexVars, docs, docNameById, cands, before, upload, content>>

\* SearchChunks with the chunks read taken out of the store
SearchChunksConsumes(p) ==
    /\ pc[p] = "getChunksForDocs"
    /\ ~Locked("chunks")
    /\ LET found == getChunksForDocs(chunks, docs[p])
       IN /\ cands' = [cands EXCEPT ![p] = found]
          /\ chunks' = [id \in DOMAIN chunks \ {found[j].id : j \in DOMAIN found}
                            |-> chunks[id]]
          /\ Respond(p, [ok |-> TRUE,
                         hits |-> TopKLoop(found, qVec[p], topK(req[p]), docNameById[p])])
    /\ UNCHANGED <<documents, tx, now, req, indexVars, calls, docs, docNameById, qVec,
                   before, upload, content>>

\* await getChunksForDocs(docs), the top-K loop and the answer
SearchChunks(p) ==
    /\ pc[p] = "getChunksForDocs"
    /\ ~Locked("chunks")
    /\ LET found == getChunksForDocs(chunks, docs[p])
       IN /\ cands' = [cands EXCEPT ![p] = found]
          /\ Respond(p, [ok |-> TRUE,
                         hits |-> TopKLoop(found, qVec[p], topK(req[p]), docNameById[p])])
    /\ UNCHANGED <<storeVars, tx, now, req, indexVars, calls, docs, docNameById, qVec,
                   before, upload, content>>

(* RAG_LIST_DOCUMENTS *)

\* documents.sort((a, b) => b.createdAt - a.createdAt): stable, newest first
RECURSIVE InsertByCreatedAt(_, _)
InsertByCreatedAt(s, x) ==
    IF s = <<>> THEN <<x>>
    ELSE IF x.createdAt > Head(s).createdAt THEN <<x>> \o s
    ELSE <<Head(s)>> \o InsertByCreatedAt(Tail(s), x)

RECURSIVE SortByCreatedAt(_)
SortByCreatedAt(s) ==
    IF Len(s) <= 1 THEN s
    ELSE InsertByCreatedAt(SortByCreatedAt(SubSeq(s, 1, Len(s) - 1)), s[Len(s)])

\* await listDocuments(), the sort and the answer
ListDocuments(p) ==
    /\ pc[p] = "listAll"
    /\ ~Locked("documents")
    /\ Respond(p, [ok |-> TRUE, documents |-> SortByCreatedAt(listDocuments(documents))])
    /\ UNCHANGED <<storeVars, tx, now, req, handlerVars, before, upload, content>>

\* a live transaction aborts (quota, store unavailable): its writes are dropped
TxAbort(p) ==
    /\ tx[p] # NoTx
    /\ tx' = [tx EXCEPT ![p] = NoTx]
    /\ Throw(p, "StorageError")
    /\ UNCHANGED <<storeVars, now, req, handlerVars, before, upload, content>>

-----------------------------------------------------------------------------
(* options page: chunkPages.  A text is the sequence of its characters. *)

WhiteSpace == {" ", "\n"}

\* String.prototype.trim
RECURSIVE TrimStart(_)
TrimStart(str) ==
    IF str # <<>> /\ Head(str) \in WhiteSpace THEN TrimStart(Tail(str)) ELSE str

RECURSIVE TrimEnd(_)
TrimEnd(str) ==
    IF str # <<>> /\ str[Len(str)] \in WhiteSpace
      THEN TrimEnd(SubSeq(str, 1, Len(str) - 1))
      ELSE str

TrimText(str) == TrimEnd(TrimStart(str))

DigitChar(d) == <<"0", "1", "2", "3", "4", "5", "6", "7", "8", "9">>[d + 1]

\* `\n\n[Page ${pg.page}]`
PageMarker(page) ==
    <<"\n", "\n", "[", "P", "a", "g", "e", " ">>
    \o [i \in 1..Len(Digits(page)) |-> DigitChar(Digits(page)[i])]
    \o <<"]">>

\* const addition = pg.text ? `\n\n[Page n]\n${pg.text}` : `\n\n[Page n]`
Addition(pg) ==
    IF pg.text # <<>> THEN PageMarker(pg.page) \o <<"\n">> \o pg.text
    ELSE PageMarker(pg.page)

\* cur.slice(Math.max(0, cur.length - overlapChars))
Overlap(cur, overlapChars) == SubSeq(cur, Max(0, Len(cur) - overlapChars) + 1, Len(cur))

\* push without the test of the trimmed text
pushUntested(st) ==
    Append(st.chunks, [pageStart |-> st.pageStart, pageEnd |-> st.pageEnd,
                       text |-> TrimText(st.cur)])

\* const push = () => { const t = cur.trim(); if (!t) return; chunks.push(...) }
push(st) ==
    IF TrimText(st.cur) = <<>> THEN st.chunks
    ELSE Append(st.chunks, [pageStart |-> st.pageStart, pageEnd |-> st.pageEnd,
                            text |-> TrimText(st.cur)])

\* AddPage with pageEnd left where it was
AddPageKeepsEnd(st, pg, opts) ==
    LET flush == /\ Len(st.cur) + Len(Addition(pg)) > opts.maxChars
                 /\ Len(TrimText(st.cur)) > 0
    IN [cur |-> (IF flush THEN Overlap(st.cur, opts.overlapChars) ELSE st.cur)
                   \o Addition(pg),
        pageStart |-> IF flush THEN pg.page ELSE st.pageStart,
        pageEnd |-> st.pageEnd,
        chunks |-> IF flush THEN push(st) ELSE st.chunks]

\* AddPage with the page that caused a flush left out of the next range
AddPageStartsBehind(st, pg, opts) ==
    LET flush == /\ Len(st.cur) + Len(Addition(pg)) > opts.maxChars
                 /\ Len(TrimText(st.cur)) > 0
    IN [cur |-> (IF flush THEN Overlap(st.cur, opts.overlapChars) ELSE st.cur)
                   \o Addition(pg),
        pageStart |-> IF flush THEN pg.page + 1 ELSE st.pageStart,
        pageEnd |-> IF flush THEN pg.page + 1 ELSE pg.page,
        chunks |-> IF flush THEN push(st) ELSE st.chunks]

\* the body of for (const pg of pages)
AddPage(st, pg, opts) ==
    LET flush == /\ Len(st.cur) + Len(Addition(pg)) > opts.maxChars
                 /\ Len(TrimText(st.cur)) > 0
    IN [cur |-> (IF flush THEN Overlap(st.cur, opts.overlapChars) ELSE st.cur)
                   \o Addition(pg),
        pageStart |-> IF flush THEN pg.page ELSE st.pageStart,
        pageEnd |-> pg.page,
        chunks |-> IF flush THEN push(st) ELSE st.chunks]

\* chunkPages(pages, opts): the loop over the pages and the last push
chunkPages(pages, opts) ==
    LET first == IF Len(pages) > 0 THEN pages[1].page ELSE 1
        RECURSIVE Loop(_)
        Loop(k) ==
            IF k = 0 THEN [cur |-> <<>>, pageStart |-> first, pageEnd |-> first,
                           chunks |-> <<>>]
            ELSE AddPage(Loop(k - 1), pages[k], opts)
    IN push(Loop(Len(pages)))

\* onUploadPdf: const chunks = chunkPages(pages)
ChunkUpload ==
    /\ ~upload.done
    /\ upload' = [upload EXCEPT
                     !.chunks = chunkPages(upload.pages,
                                           [maxChars |-> upload.maxChars,
                                            overlapChars |-> upload.overlapChars]),
                     !.done = TRUE]
    /\ UNCHANGED <<storeVars, tx, now, pc, req, resp, handlerVars, before, last, content>>

-----------------------------------------------------------------------------
(* content script: the prompt text.  A text is the sequence of its parts. *)

TEMPLATE_PLACEHOLDER == "{{input}}"
MAX_CHARS_PER_HIT == 1400

\* fillTemplate: every placeholder replaced by the input, or the input
\* appended after a blank line
fillTemplate(template, input) ==
    IF \E i \in DOMAIN template : template[i] = TEMPLATE_PLACEHOLDER
      THEN [i \in DOMAIN template |->
               IF template[i] = TEMPLATE_PLACEHOLDER THEN input ELSE template[i]]
      ELSE template \o <<"\n\n", input>>

\* the three lines formatPdfContext pushes for hit h: label, text, blank
HitLines(h) ==
    <<[line |-> "label",
       name |-> IF h.docName = "undefined" THEN h.docId ELSE h.docName,
       pages |-> IF h.pageStart = h.pageEnd THEN <<h.pageStart>>
                 ELSE <<h.pageStart, h.pageEnd>>],
      [line |-> "text", chars |-> Min(h.text, MAX_CHARS_PER_HIT)],
      [line |-> "blank"]>>

RECURSIVE AllHitLines(_)
AllHitLines(hits) ==
    IF hits = <<>> THEN <<>> ELSE HitLines(Head(hits)) \o AllHitLines(Tail(hits))

\* formatPdfContext with the hits taken from the last to the first
formatPdfContextReversed(hits) ==
    IF Len(hits) = 0 THEN <<>>
    ELSE <<[line |-> "header"]>>
         \o AllHitLines([j \in DOMAIN hits |-> hits[Len(hits) + 1 - j]])
         \o <<[line |-> "footer"]>>

\* formatPdfContext: the lines of the context block, none without hits
formatPdfContext(hits) ==
    IF Len(hits) = 0 THEN <<>>
    ELSE <<[line |-> "header"]>> \o AllHitLines(hits) \o <<[line |-> "footer"]>>

\* the callback of sendRagSearch called with no response
Undefined == [undefined |-> TRUE]

\* buildPromptWithPdfContext: base, and the context block after it when the
\* search gave hits; reading res.ok of no response throws and is caught
buildPromptWithPdfContext(template, input, res) ==
    LET base == fillTemplate(template, input)
    IN IF res = Undefined THEN [base |-> base, ctx |-> <<>>]
       ELSE IF ~res.ok THEN [base |-> base, ctx |-> <<>>]
       ELSE IF Len(res.hits) = 0 THEN [base |-> base, ctx |-> <<>>]
       ELSE [base |-> base, ctx |-> formatPdfContext(res.hits)]

-----------------------------------------------------------------------------
(* content script: the RUN_PROMPT listener and the prompt runs *)

\* the listener ignores a repeated RUN_PROMPT for this long, and the
\* background sends its second RUN_PROMPT this long after the first (ms)
DedupeWindow == 400
RetryDelay == 150

backgroundVars ==
    <<documents, chunks, tx, now, pc, req, resp, loopI, chunkRecords, docRecord,
      calls, docs, docNameById, qVec, cands, before, last, upload>>

IsArea(prompt) == prompt.promptMode \in {"area", "area-prompt"}

\* a prompt triggered and not yet ended: where its async function waits
Task(prompt, kind, at, input) ==
    [prompt |-> prompt, kind |-> kind, pc |-> at, input |-> input,
     res |-> Undefined, promptText |-> [base |-> <<>>, ctx |-> <<>>]]

AddTask(c, task) == [c EXCEPT !.tasks = Append(@, task)]

RemoveTask(c, t) ==
    [c EXCEPT !.tasks = SubSeq(@, 1, t - 1) \o SubSeq(@, t + 1, Len(@))]

hidePopup(c) ==
    [c EXCEPT !.visible = FALSE, !.mode = "idle", !.activePrompt = NoPrompt,
              !.inputText = "", !.areaImageDataUrl = FALSE]

\* window.alert, window.prompt: the script stands still until the user answers
Dialog(c, d) == [c EXCEPT !.clock = @ + d]

\* runningRef.current = true and the run up to its first await
StartRun(c, prompt, kind, input) ==
    AddTask([c EXCEPT !.runningRef = TRUE], Task(prompt, kind, "search", input))

\* runPrompt up to its first await
runPrompt(c, prompt, input) ==
    IF c.runningRef THEN c
    ELSE StartRun([c EXCEPT !.mode = "thinking"], prompt, "popup", input)

\* runCompatibilityPrompt up to its first await
runCompatibilityPrompt(c, prompt, sel, typed, d) ==
    IF c.runningRef THEN c
    ELSE IF c.apiKeyRef = "" THEN Dialog(c, d)
    ELSE IF IsArea(prompt) THEN AddTask(c, Task(prompt, "compat", "pickArea", ""))
    ELSE IF prompt.promptMode = "select"
      THEN IF sel = "" THEN Dialog(c, d) ELSE StartRun(c, prompt, "compat", sel)
    ELSE IF typed = "" THEN Dialog(c, d)
    ELSE StartRun(Dialog(c, d), prompt, "compat", typed)

\* runClipboardOnlyPrompt up to its first await
runClipboardOnlyPrompt(c, prompt, sel, typed, d) ==
    IF c.runningRef THEN c
    ELSE IF c.apiKeyRef = "" THEN c
    ELSE IF IsArea(prompt) THEN AddTask(c, Task(prompt, "clipboard", "pickArea", ""))
    ELSE IF prompt.promptMode = "select"
      THEN IF sel = "" THEN c ELSE StartRun(c, prompt, "clipboard", sel)
    ELSE IF typed = "" THEN Dialog(c, d)
    ELSE StartRun(Dialog(c, d), prompt, "clipboard", typed)

\* triggerPrompt up to its first await
triggerPrompt(c, prompt, sel, typed, d) ==
    IF prompt.compatMode THEN runCompatibilityPrompt(hidePopup(c), prompt, sel, typed, d)
    ELSE IF prompt.answerMode = "clipboard"
      THEN runClipboardOnlyPrompt(hidePopup(c), prompt, sel, typed, d)
    ELSE IF IsArea(prompt)
      THEN IF c.apiKeyRef = ""
             THEN [hidePopup(c) EXCEPT !.visible = TRUE, !.activePrompt = prompt,
                                       !.mode = "error"]
             ELSE AddTask(hidePopup(c), Task(prompt, "popup", "pickArea", ""))
    ELSE LET shown == [c EXCEPT !.visible = TRUE, !.activePrompt = prompt,
                                !.areaImageDataUrl = FALSE]
         IN IF shown.apiKeyRef = "" THEN [shown EXCEPT !.mode = "error"]
            ELSE IF shown.runningRef THEN shown
            ELSE IF prompt.promptMode = "select"
              THEN IF sel # "" THEN runPrompt(shown, prompt, sel)
                   ELSE [shown EXCEPT !.mode = "error"]
            ELSE [shown EXCEPT !.mode = "awaiting_input", !.inputText = sel]

\* the de-dupe of the listener: the message repeats the one accepted last
Repeated(c, prompt) ==
    /\ prompt.id # ""
    /\ c.lastRunPromptMsgRef # NoLastMsg
    /\ c.lastRunPromptMsgRef.promptId = prompt.id
    /\ c.clock - c.lastRunPromptMsgRef.at < DedupeWindow

\* chrome.runtime.onMessage listener, RUN_PROMPT
OnRunPrompt(c, prompt, apiKey, sel, typed, d) ==
    LET keyed == IF apiKey # "" THEN [c EXCEPT !.apiKeyRef = apiKey] ELSE c
    IN IF Repeated(keyed, prompt) THEN keyed
       ELSE LET stamped ==
                    IF prompt.id # ""
                      THEN [keyed EXCEPT !.lastRunPromptMsgRef =
                                            [promptId |-> prompt.id, at |-> keyed.clock]]
                      ELSE keyed
            IN [triggerPrompt(stamped, prompt, sel, typed, d) EXCEPT !.triggered = @ + 1]

\* what the page and the user give a trigger: the selected text, the answer
\* to window.prompt, and how long a dialog stays open (ms)
Selections == {"", "sel"}
Typings == {"", "typed"}
DialogTimes == {1000}

\* the time between the last message of a command and the next command (ms)
CommandGaps == {1000}

Template1 == <<"Explain:", TEMPLATE_PLACEHOLDER>>
Template2 == <<"Summarize">>

Prompt(id, compatMode, promptMode, answerMode, template) ==
    [id |-> id, compatMode |-> compatMode, promptMode |-> promptMode,
     answerMode |-> answerMode, template |-> template]

\* the prompts of the settings: two for the popup, one for the area
\* screenshot in each of the three runners, one for the dialogs of the
\* compatibility mode
Prompts ==
    {Prompt("select", FALSE, "select", "popup", Template1),
     Prompt("prompt", FALSE, "select-prompt", "popup-clipboard", Template2),
     Prompt("area", FALSE, "area", "popup", Template2),
     Prompt("compat", TRUE, "select-prompt", "popup", Template1),
     Prompt("compat-area", TRUE, "area", "clipboard", Template2),
     Prompt("clip-area", FALSE, "area-prompt", "clipboard", Template2)}

\* the hits a RAG_SEARCH response holds; text is the length of the chunk text
ContextHit(docId, docName, pageStart, pageEnd, text) ==
    [docId |-> docId, docName |-> docName, pageStart |-> pageStart,
     pageEnd |-> pageEnd, text |-> text]

SearchResponses ==
    {Undefined,
     [ok |-> FALSE, error |-> "Missing query"],
     [ok |-> TRUE, hits |-> <<>>],
     [ok |-> TRUE, hits |-> <<ContextHit("d1", "a.pdf", 1, 1, 10)>>],
     [ok |-> TRUE, hits |-> <<ContextHit("d2", "undefined", 2, 3, 2000),
                              ContextHit("d1", "a.pdf", 1, 1, 10)>>]}

\* keyboard commands in one behaviour
MaxCommands == 2

\* chrome.commands.onCommand: injectAndRunPrompt sends RUN_PROMPT, which the
\* content script receives unless it is still initializing, and sets the
\* timer of the second send
Command ==
    /\ content.commands < MaxCommands
    /\ content.retry = NoRetry
    /\ \E prompt \in Prompts, gap \in CommandGaps, received \in BOOLEAN,
          sel \in Selections, typed \in Typings, d \in DialogTimes :
          LET c == [content EXCEPT !.clock = @ + gap, !.commands = @ + 1,
                                   !.triggered = 0,
                                   !.retry = [prompt |-> prompt, apiKey |-> "key"]]
          IN content' = IF received THEN OnRunPrompt(c, prompt, "key", sel, typed, d)
                        ELSE c
    /\ UNCHANGED backgroundVars

\* setTimeout(() => void sendTabMessage(msg), 150)
Retry ==
    /\ content.retry # NoRetry
    /\ \E sel \in Selections, typed \in Typings, d \in DialogTimes :
          content' = OnRunPrompt([content EXCEPT !.clock = @ + RetryDelay,
                                                 !.retry = NoRetry],
                                 content.retry.prompt, content.retry.apiKey,
                                 sel, typed, d)
    /\ UNCHANGED backgroundVars

\* what follows a rejected pickAreaRect, captureVisibleTabDataUrl or
\* cropDataUrlToRect: triggerPrompt catches it, the other two runners do not
AreaFailed(c, t) ==
    IF c.tasks[t].kind = "popup"
      THEN [RemoveTask(c, t) EXCEPT !.visible = TRUE,
                                    !.activePrompt = c.tasks[t].prompt,
                                    !.mode = "error"]
      ELSE RemoveTask(c, t)

\* await pickAreaRect(): a rectangle, or null on Escape
PickAreaResolves(t) ==
    /\ t \in DOMAIN content.tasks
    /\ content.tasks[t].pc = "pickArea"
    /\ \E rect \in BOOLEAN :
          content' = IF rect THEN [content EXCEPT !.tasks[t].pc = "capture"]
                     ELSE RemoveTask(content, t)
    /\ UNCHANGED backgroundVars

\* await captureVisibleTabDataUrl()
CaptureResolves(t) ==
    /\ t \in DOMAIN content.tasks
    /\ content.tasks[t].pc = "capture"
    /\ \E ok \in BOOLEAN :
          content' = IF ok THEN [content EXCEPT !.tasks[t].pc = "crop"]
                     ELSE AreaFailed(content, t)
    /\ UNCHANGED backgroundVars

\* the screenshot is cropped: what the runner of task t does up to its next await
Cropped(c, t, typed, d) ==
    LET task == c.tasks[t]
        prompt == task.prompt
    IN IF task.kind \in {"compat", "clipboard"}
         THEN LET asked == IF prompt.promptMode = "area-prompt" THEN Dialog(c, d) ELSE c
                  input == IF prompt.promptMode = "area-prompt" /\ typed # ""
                             THEN typed ELSE "Screenshot attached."
              IN [asked EXCEPT !.runningRef = TRUE, !.tasks[t].pc = "search",
                               !.tasks[t].input = input]
       ELSE LET shown == [c EXCEPT !.visible = TRUE, !.activePrompt = prompt,
                                   !.areaImageDataUrl = TRUE]
            IN IF prompt.promptMode = "area"
                 THEN IF shown.runningRef
                        THEN RemoveTask([shown EXCEPT !.mode = "thinking"], t)
                        ELSE [shown EXCEPT !.mode = "thinking", !.runningRef = TRUE,
                                           !.tasks[t].pc = "search",
                                           !.tasks[t].input = "Screenshot attached."]
                 ELSE RemoveTask([shown EXCEPT !.mode = "awaiting_input",
                                               !.inputText = ""], t)

\* await cropDataUrlToRect(...)
CropResolves(t) ==
    /\ t \in DOMAIN content.tasks
    /\ content.tasks[t].pc = "crop"
    /\ \E ok \in BOOLEAN, typed \in Typings, d \in DialogTimes :
          content' = IF ok THEN Cropped(content, t, typed, d)
                     ELSE AreaFailed(content, t)
    /\ UNCHANGED backgroundVars

\* the textarea's onChange
UserTypes ==
    /\ content.visible
    /\ content.mode = "awaiting_input"
    /\ content.inputText # "typed"
    /\ content' = [content EXCEPT !.inputText = "typed"]
    /\ UNCHANGED backgroundVars

\* Run, or Enter in the textarea
Submit ==
    /\ content.visible
    /\ content.mode = "awaiting_input"
    /\ content.activePrompt # NoPrompt
    /\ content.inputText # "" \/ content.areaImageDataUrl
    /\ content' = runPrompt(content, content.activePrompt,
                            IF content.inputText # "" THEN content.inputText
                            ELSE "Screenshot attached.")
    /\ UNCHANGED backgroundVars

\* await buildPromptWithPdfContext(...): the RAG_SEARCH response arrives and
\* OPENROUTER_CHAT is sent
SearchAnswered(t, responses) ==
    /\ t \in DOMAIN content.tasks
    /\ content.tasks[t].pc = "search"
    /\ \E res \in responses :
          content' = [content EXCEPT
                        !.tasks[t].pc = "chat",
                        !.tasks[t].res = res,
                        !.tasks[t].promptText =
                            buildPromptWithPdfContext(content.tasks[t].prompt.template,
                                                      content.tasks[t].input, res)]
    /\ UNCHANGED backgroundVars

\* the end of a run: the popup shows the answer or the error, and finally
\* runningRef.current = false (the alerts of the compatibility mode, which
\* only take time, are left out)
ChatEnds(c, t, outcome) ==
    IF c.tasks[t].kind = "popup" /\ outcome # "throw"
      THEN RemoveTask([c EXCEPT !.runningRef = FALSE,
                                !.mode = IF outcome = "ok" THEN "done" ELSE "error"], t)
      ELSE RemoveTask([c EXCEPT !.runningRef = FALSE], t)

\* await sendOpenRouterChat(...): an answer, an error response, or no
\* response (reading res.ok throws)
ChatAnswered(t) ==
    /\ t \in DOMAIN content.tasks
    /\ content.tasks[t].pc = "chat"
    /\ \E outcome \in {"ok", "error", "throw"} : content' = ChatEnds(content, t, outcome)
    /\ UNCHANGED backgroundVars

-----------------------------------------------------------------------------
(* Specifications *)

Init ==
    /\ documents = <<>>
    /\ chunks = <<>>
    /\ tx = [p \in Procs |-> NoTx]
    /\ now = 0
    /\ pc = [p \in Procs |-> "idle"]
    /\ req = [p \in Procs |-> NoMsg]
    /\ resp = [p \in Procs |-> NoResp]
    /\ loopI = [p \in Procs |-> 0]
    /\ chunkRecords = [p \in Procs |-> <<>>]
    /\ docRecord = [p \in Procs |-> NoDoc]
    /\ calls = [p \in Procs |-> <<>>]
    /\ docs = [p \in Procs |-> <<>>]
    /\ docNameById = [p \in Procs |-> <<>>]
    /\ qVec = [p \in Procs |-> NoVec]
    /\ cands = [p \in Procs |-> <<>>]
    /\ before = [documents |-> <<>>, chunks |-> <<>>, last |-> NoLast]
    /\ upload = NoUpload
    /\ content = NoContent
    /\ last = NoLast

Handle(p, provider) ==
    \/ EmbedBatch(p, provider)
    \/ PutDocument(p)
    \/ PutDocumentFails(p)
    \/ PutChunksBegin(p)
    \/ PutChunksCommit(p)
    \/ DeleteBegin(p)
    \/ DeleteCursor(p)
    \/ DeleteCommit(p)
    \/ TxAbort(p)

Search(p, provider) ==
    \/ SearchList(p)
    \/ SearchEmbed(p, provider)
    \/ SearchChunks(p)

\* the messages of the concurrent runs: one batch each, and a search of d1
ConcMessages ==
    {onUploadPdf([bytes |-> "b1", name |-> "a.pdf"]),
     onUploadPdf([bytes |-> "b2", name |-> "a.pdf"]),
     IndexMsg("d1", "a.pdf", "b2", 1),
     DeleteMsg("d1"),
     SearchMsg("what", 1, <<"d1">>)}

\* requests overlap: a message may arrive while another is being handled
\* and is handled in the first free slot
FreeSlot == IF pc["r1"] \in {"idle", "done"} THEN "r1" ELSE "r2"

ReceiveAny == /\ \E m \in ConcMessages : Receive(FreeSlot, m, MaxTime)
              /\ UNCHANGED <<before, upload, content>>

Next ==
    \/ ReceiveAny
    \/ \E p \in Procs : Handle(p, Provider(OneVector, {0}))
    \/ \E p \in Procs : Search(p, Provider(OneVector, {0}))

Spec == Init /\ [][Next]_vars

\* the messages of the serial runs: up to MaxBatches batches
SeqMessages ==
    {onUploadPdf(f) : f \in Files}
    \cup {IndexMsg("d1", "a.pdf", "b2", 1),
          IndexMsg("d1", "a.pdf", "b2", (MaxBatches - 1) * BATCH + 1),
          IndexMsg("d1", "a.pdf", "b1", 0),
          DeleteMsg("d1")}

Quiet == \A q \in Procs : pc[q] \in {"idle", "done"}

\* one request at a time, as the options page sends them (it awaits each answer)
ReceiveSerial ==
    /\ Quiet
    /\ \E m \in SeqMessages : Receive("r1", m, MaxSerial)
    /\ before' = [documents |-> documents, chunks |-> chunks, last |-> last]
    /\ UNCHANGED <<upload, content>>

NextSeq == ReceiveSerial \/ Handle("r1", Provider(RawVectors, {0}))

SpecSeq == Init /\ [][NextSeq]_vars

(* one search over an indexed store *)

\* the largest number of chunks a document of the searched store has
MaxRankChunks == 2

\* the normalized vectors the searched chunks hold
RankVectors == {toNormalizedF32(v) : v \in {<<3, 4>>, <<4, 3>>, <<5>>}}

RankChunk(d, i, e) ==
    [id |-> <<d, i>>, docId |-> d, createdAt |-> 0, pageStart |-> i + 1,
     pageEnd |-> i + 1, text |-> <<d, i>>, embeddingF32 |-> e]

\* the chunk stores searched: up to MaxRankChunks chunks for each of d1 and d2
RankChunkSets ==
    UNION {[{<<"d1", i>> : i \in 0..(n1 - 1)} \cup {<<"d2", i>> : i \in 0..(n2 - 1)}
              -> RankVectors] : n1, n2 \in 0..MaxRankChunks}

RankName(d) == IF d = "d1" THEN "a.pdf" ELSE "b.pdf"

\* the searches: every k up to one more than a document's chunks over a few
\* docIds; k = 0 and a k beyond 20; no docIds; a blank and an empty query
RankMessages ==
    {SearchMsg("what", k, ids) :
        k \in 1..(MaxRankChunks + 1),
        ids \in {<<>>, <<"d1">>, <<"d2", "d1">>, <<"d1", "d1">>}}
    \cup {SearchMsg("what", k, <<>>) : k \in {0, 999}}
    \cup {SearchAllMsg("what", 1), SearchMsg(" ", 1, <<>>), SearchMsg("", 1, <<"d1">>)}

\* the store as earlier indexing runs left it; one more message can arrive
InitRank ==
    /\ \E e \in RankChunkSets :
          /\ chunks = [id \in DOMAIN e |-> RankChunk(id[1], id[2], e[id])]
          /\ documents =
               [d \in {id[1] : id \in DOMAIN e} |->
                   [id |-> d, name |-> RankName(d), createdAt |-> 0,
                    embeddingModel |-> EMBEDDING_MODEL,
                    chunkCount |-> Cardinality({id \in DOMAIN e : id[1] = d})]]
    /\ tx = [p \in Procs |-> NoTx]
    /\ now = MaxSerial - 1
    /\ pc = [p \in Procs |-> "idle"]
    /\ req = [p \in Procs |-> NoMsg]
    /\ resp = [p \in Procs |-> NoResp]
    /\ loopI = [p \in Procs |-> 0]
    /\ chunkRecords = [p \in Procs |-> <<>>]
    /\ docRecord = [p \in Procs |-> NoDoc]
    /\ calls = [p \in Procs |-> <<>>]
    /\ docs = [p \in Procs |-> <<>>]
    /\ docNameById = [p \in Procs |-> <<>>]
    /\ qVec = [p \in Procs |-> NoVec]
    /\ cands = [p \in Procs |-> <<>>]
    /\ before = [documents |-> <<>>, chunks |-> <<>>, last |-> NoLast]
    /\ upload = NoUpload
    /\ content = NoContent
    /\ last = NoLast

ReceiveSearch ==
    /\ Quiet
    /\ \E m \in RankMessages : Receive("r1", m, MaxSerial)
    /\ before' = [documents |-> documents, chunks |-> chunks, last |-> last]
    /\ UNCHANGED <<upload, content>>

NextRank == ReceiveSearch \/ Search("r1", Provider(RawVectors, {0}))

SpecRank == InitRank /\ [][NextRank]_vars

(* requests at the edges: invalid ones, and a provider whose response may
   hold one vector less or one more than it was sent inputs *)

\* messages received in one behaviour of these runs
MaxEdge == 2

\* the vectors of the provider of these runs: of two components, of one
\* (zero) and of none
EdgeVectors == {<<3, 4>>, <<0>>, <<>>}

EdgeMessages ==
    {onUploadPdf([bytes |-> "b1", name |-> "a.pdf"]),
     IndexMsg("d1", "a.pdf", "b2", BATCH + 1),
     IndexMsg("", "a.pdf", "b1", 1),
     IndexMsg("d1", "", "b1", 1),
     IndexMsg("d1", "a.pdf", "b1", 0),
     DeleteMsg("d1"),
     DeleteMsg(""),
     SearchMsg("what", 1, <<>>),
     SearchMsg(" ", 1, <<>>),
     SearchMsg("", 1, <<>>)}

ReceiveEdge ==
    /\ Quiet
    /\ \E m \in EdgeMessages : Receive("r1", m, MaxEdge)
    /\ before' = [documents |-> documents, chunks |-> chunks, last |-> last]
    /\ UNCHANGED <<upload, content>>

NextEdge ==
    \/ ReceiveEdge
    \/ Handle("r1", Provider(EdgeVectors, {-1, 0, 1}))
    \/ Search("r1", Provider(EdgeVectors, {-1, 0, 1}))

SpecEdge == Init /\ [][NextEdge]_vars

(* requests of every type, overlapping *)

\* messages received in one behaviour of these runs
MaxLive == 2

LiveMessages ==
    {onUploadPdf([bytes |-> "b2", name |-> "a.pdf"]),
     DeleteMsg("d2"),
     SearchAllMsg("what", 1),
     SearchMsg("", 1, <<>>),
     ListMsg,
     OtherMsg}

ReceiveLive == /\ \E m \in LiveMessages : Receive(FreeSlot, m, MaxLive)
               /\ UNCHANGED <<before, upload, content>>

NextLive ==
    \/ ReceiveLive
    \/ \E p \in Procs : Handle(p, Provider(OneVector, {0}))
    \/ \E p \in Procs : Search(p, Provider(OneVector, {0}))
    \/ \E p \in Procs : ListDocuments(p)

SpecLive == Init /\ [][NextLive]_vars

\* every await of a handler settles: the provider answers or fails, a
\* transaction completes or aborts
FairLive ==
    /\ SpecLive
    /\ \A p \in Procs :
          WF_vars(\/ Handle(p, Provider(OneVector, {0}))
                  \/ Search(p, Provider(OneVector, {0}))
                  \/ ListDocuments(p))

(* the chunking of one extracted file *)

\* the most pages a file has
MaxPages == 3

\* page texts: none, one word, two words, and texts of or ending in white space
PageTexts == {<<>>, <<"x">>, <<"x", " ", "x">>, <<" ">>, <<"x", " ">>}

\* extractPdfText numbers the pages 1, 2, ...
PageLists ==
    UNION {{[k \in 1..n |-> [page |-> k, text |-> t[k]]] : t \in [1..n -> PageTexts]} :
              n \in 0..MaxPages}

\* maxChars: none, one page, two pages, three pages of one word
MaxCharsChoices == {0, 12, 26, 40}
OverlapChoices == {0, 2, 5, 40}

InitChunk ==
    /\ documents = <<>>
    /\ chunks = <<>>
    /\ tx = [p \in Procs |-> NoTx]
    /\ now = 0
    /\ pc = [p \in Procs |-> "idle"]
    /\ req = [p \in Procs |-> NoMsg]
    /\ resp = [p \in Procs |-> NoResp]
    /\ loopI = [p \in Procs |-> 0]
    /\ chunkRecords = [p \in Procs |-> <<>>]
    /\ docRecord = [p \in Procs |-> NoDoc]
    /\ calls = [p \in Procs |-> <<>>]
    /\ docs = [p \in Procs |-> <<>>]
    /\ docNameById = [p \in Procs |-> <<>>]
    /\ qVec = [p \in Procs |-> NoVec]
    /\ cands = [p \in Procs |-> <<>>]
    /\ before = [documents |-> <<>>, chunks |-> <<>>, last |-> NoLast]
    /\ last = NoLast
    /\ content = NoContent
    /\ \E ps \in PageLists, mc \in MaxCharsChoices, oc \in OverlapChoices :
          upload = [pages |-> ps, maxChars |-> mc, overlapChars |-> oc,
                    chunks |-> <<>>, done |-> FALSE]

NextChunk == ChunkUpload

SpecChunk == InitChunk /\ [][NextChunk]_vars

(* the content script of one tab *)

TaskIds == 1..(2 * MaxCommands + 1)

NextContent ==
    \/ Command
    \/ Retry
    \/ UserTypes
    \/ Submit
    \/ \E t \in TaskIds : PickAreaResolves(t)
    \/ \E t \in TaskIds : CaptureResolves(t)
    \/ \E t \in TaskIds : CropResolves(t)
    \/ \E t \in TaskIds : SearchAnswered(t, {[ok |-> TRUE, hits |-> <<>>]})
    \/ \E t \in TaskIds : ChatAnswered(t)

SpecContent == Init /\ [][NextContent]_vars

(* one prompt run, from its context search to its end *)

RunnerOf(prompt) ==
    IF prompt.compatMode THEN "compat"
    ELSE IF prompt.answerMode = "clipboard" THEN "clipboard"
    ELSE "popup"

\* the inputs a run is started with: the selection, the typed text, the
\* stand-in for a screenshot
RunInputs == {"sel", "typed", "Screenshot attached."}

\* a run has just been started and waits for its context search
InitPrompt ==
    /\ documents = <<>>
    /\ chunks = <<>>
    /\ tx = [p \in Procs |-> NoTx]
    /\ now = 0
    /\ pc = [p \in Procs |-> "idle"]
    /\ req = [p \in Procs |-> NoMsg]
    /\ resp = [p \in Procs |-> NoResp]
    /\ loopI = [p \in Procs |-> 0]
    /\ chunkRecords = [p \in Procs |-> <<>>]
    /\ docRecord = [p \in Procs |-> NoDoc]
    /\ calls = [p \in Procs |-> <<>>]
    /\ docs = [p \in Procs |-> <<>>]
    /\ docNameById = [p \in Procs |-> <<>>]
    /\ qVec = [p \in Procs |-> NoVec]
    /\ cands = [p \in Procs |-> <<>>]
    /\ before = [documents |-> <<>>, chunks |-> <<>>, last |-> NoLast]
    /\ last = NoLast
    /\ upload = NoUpload
    /\ \E prompt \in Prompts, template \in {Template1, Template2}, input \in RunInputs :
          content = StartRun([NoContent EXCEPT !.apiKeyRef = "key"],
                             [prompt EXCEPT !.template = template],
                             RunnerOf(prompt), input)

NextPrompt == SearchAnswered(1, SearchResponses) \/ ChatAnswered(1)

SpecPrompt == InitPrompt /\ [][NextPrompt]_vars

-----------------------------------------------------------------------------
(* Properties *)

IsIndex(p) == req[p].type = "RAG_INDEX_DOCUMENT"
IsDelete(p) == req[p].type = "RAG_DELETE_DOCUMENT"
Answered(p) == pc[p] = "done"
Succeeded(p) == pc[p] = "done" /\ resp[p].ok

\* a document id is whole: its record with exactly chunkCount chunks, or nothing
Whole(d) ==
    IF d \in DOMAIN documents
      THEN documents[d].chunkCount = Cardinality(ByDocId(chunks, d))
      ELSE ByDocId(chunks, d) = {}

\* C1: in every store state a reader can observe, each stored document's
\* chunkCount is the number of stored chunks with its id as docId.
C1_ChunkCountMatches ==
    \A d \in DOMAIN documents :
        documents[d].chunkCount = Cardinality(ByDocId(chunks, d))

\* C2: when the provider call of any batch of an indexing run fails, the run
\* is over, the answer is ok:false and both object stores are what they were
\* when the message arrived.
C2_ProviderFailureAborts ==
    \A p \in Procs :
        (IsIndex(p) /\ \E k \in DOMAIN calls[p] : ~calls[p][k].ok)
        => /\ Answered(p)
           /\ ~resp[p].ok
           /\ documents = before.documents
           /\ chunks = before.chunks

\* the middle batch of a three-batch run failed, over a store that held a document
C2_Witness ==
    /\ IsIndex("r1") /\ Answered("r1")
    /\ Len(req["r1"].chunks) > 2 * BATCH
    /\ Len(calls["r1"]) = 2
    /\ calls["r1"][1].ok /\ ~calls["r1"][2].ok
    /\ before.documents # <<>>

\* C3: once a delete of D and an indexing run of D that overlapped it have both
\* been answered ok (the only two requests so far), D is whole: its record with
\* exactly chunkCount chunks, or no record and no chunk.
C3_DeleteIndexIsolated ==
    \A p, q \in Procs :
        (/\ now = 2
         /\ IsIndex(p) /\ Succeeded(p)
         /\ IsDelete(q) /\ Succeeded(q)
         /\ req[q].docId = req[p].doc.id)
        => Whole(req[q].docId)

\* C4: deleteDocument is atomic: a step of the store that removes a document
\* record leaves no chunk of that id, and a step that removes a chunk of an id
\* removes every chunk of the id and leaves no record of it.
C4_DeleteAtomic ==
    [][\A d \in DocIds :
          /\ (d \in DOMAIN documents /\ d \notin DOMAIN documents')
             => ByDocId(chunks', d) = {}
          /\ (ByDocId(chunks, d) \ ByDocId(chunks', d) # {})
             => (ByDocId(chunks', d) = {} /\ d \notin DOMAIN documents')]_vars

\* a delete was answered while an indexing run of the same id is between its
\* two store writes, and the id is gone altogether
C4_Witness ==
    \E p, q \in Procs :
        /\ IsDelete(p) /\ Succeeded(p) /\ last.req = req[p]
        /\ IsIndex(q) /\ pc[q] = "putChunks" /\ req[q].doc.id = req[p].docId
        /\ req[p].docId \notin DOMAIN documents
        /\ ByDocId(chunks, req[p].docId) = {}

\* C5: when deleteDocument(id) completes, getChunksForDocs([id]) is empty and
\* listDocuments() holds no document of that id, whatever the store held.
C5_CascadingDelete ==
    [][\A p \in Procs :
          (IsDelete(p) /\ pc[p] # "done" /\ pc'[p] = "done" /\ resp'[p].ok)
          => /\ getChunksForDocs(chunks', <<req[p].docId>>) = <<>>
             /\ \A j \in DOMAIN listDocuments(documents') :
                    listDocuments(documents')[j].id # req[p].docId]_vars

\* a delete of an indexed document was the last answer, nothing is in flight,
\* and the id has neither record nor chunks
C5_Witness ==
    \E p, q \in Procs :
        /\ Quiet
        /\ IsDelete(p) /\ Succeeded(p) /\ last.req = req[p]
        /\ IsIndex(q) /\ Succeeded(q) /\ req[q].doc.id = req[p].docId
        /\ getChunksForDocs(chunks, <<req[p].docId>>) = <<>>
        /\ req[p].docId \notin DOMAIN documents

\* the request answered before the one in hand was a successful indexing run
AfterIndexOf(p) ==
    /\ IsIndex(p) /\ Succeeded(p)
    /\ before.last.req.type = "RAG_INDEX_DOCUMENT"
    /\ before.last.resp.ok
    /\ before.last.req.doc.id = req[p].doc.id

\* a chunk record without its timestamp and its vector
Content(c) == [id |-> c.id, docId |-> c.docId, pageStart |-> c.pageStart,
               pageEnd |-> c.pageEnd, text |-> c.text]

\* the records a request's chunk list stands for
ContentOf(m) ==
    {[id |-> m.chunks[j].id, docId |-> m.doc.id, pageStart |-> m.chunks[j].pageStart,
      pageEnd |-> m.chunks[j].pageEnd, text |-> m.chunks[j].text] : j \in DOMAIN m.chunks}

\* C6: after two successful indexing runs of one id, with lists A then B, the
\* stored chunks of the id are exactly those of B.
C6_ReindexReplaces ==
    \A p \in Procs :
        AfterIndexOf(p)
        => {Content(chunks[id]) : id \in ByDocId(chunks, req[p].doc.id)}
             = ContentOf(req[p])

\* a record without its createdAt
NoStamp(r) == [f \in DOMAIN r \ {"createdAt"} |-> r[f]]
Unstamped(store) == [id \in DOMAIN store |-> NoStamp(store[id])]

\* the same file was uploaded twice in a row, both runs succeeded, and the
\* provider answered the second run with the vectors it gave the first
SameUploadTwice(p) ==
    /\ AfterIndexOf(p)
    /\ \E f \in Files : req[p] = onUploadPdf(f) /\ before.last.req = onUploadPdf(f)
    /\ \A j \in DOMAIN chunkRecords[p] :
          \A id \in DOMAIN before.chunks :
              before.chunks[id].text = chunkRecords[p][j].text
              => before.chunks[id].embeddingF32 = chunkRecords[p][j].embeddingF32

C8_StorageFailureLeavesStore ==
    \A p \in Procs :
        (IsIndex(p) /\ Answered(p) /\ resp[p] = [ok |-> FALSE, error |-> "StorageError"])
        => /\ documents = before.documents
           /\ chunks = before.chunks

IsSearch(p) == req[p].type = "RAG_SEARCH"

\* the score the search gives a chunk it read
ScoreOf(p, c) == cosineDot(qVec[p], c.embeddingF32)

Returned(p, c) == \E j \in DOMAIN resp[p].hits : resp[p].hits[j].chunkId = c.id

\* C9: a successful search returns min(k, number of candidates) hits, in
\* descending score order, each of them a candidate with its score, and no
\* candidate left out scores higher than a returned hit.
C9_TopKRanking ==
    \A p \in Procs :
        (IsSearch(p) /\ Succeeded(p))
        => LET hits == resp[p].hits
               cs == cands[p]
           IN /\ Len(hits) = Min(topK(req[p]), Len(cs))
              /\ \A j \in 1..(Len(hits) - 1) :
                    ~Greater(hits[j + 1].score, hits[j].score)
              /\ \A j \in DOMAIN hits :
                    \E i \in DOMAIN cs :
                        /\ cs[i].id = hits[j].chunkId
                        /\ hits[j].score = ScoreOf(p, cs[i])
              /\ \A i \in DOMAIN cs :
                    ~Returned(p, cs[i])
                    => \A j \in DOMAIN hits :
                           ~Greater(ScoreOf(p, cs[i]), hits[j].score)

\* more candidates than k, and the best hit is the chunk read last: it took the
\* place of a kept hit
C9_Witness ==
    /\ IsSearch("r1") /\ Succeeded("r1")
    /\ Len(cands["r1"]) > topK(req["r1"])
    /\ Len(resp["r1"].hits) >= 2
    /\ resp["r1"].hits[1].chunkId = cands["r1"][Len(cands["r1"])].id
    /\ Greater(resp["r1"].hits[1].score, resp["r1"].hits[2].score)

\* C10: ties go to the lower chunk id: of two hits with one score the lower id
\* comes first, and a chunk left out has a higher id than every hit of its
\* score, whatever the order of docIds (no id listed twice).
C10_TieBreakByChunkId ==
    \A p \in Procs :
        (/\ IsSearch(p) /\ Succeeded(p)
         /\ \A i, j \in DOMAIN cands[p] : cands[p][i].id = cands[p][j].id => i = j)
        => LET hits == resp[p].hits
               cs == cands[p]
           IN /\ \A j \in 1..(Len(hits) - 1) :
                    SameScore(hits[j].score, hits[j + 1].score)
                    => IdLess(hits[j].chunkId, hits[j + 1].chunkId)
              /\ \A i \in DOMAIN cs :
                    ~Returned(p, cs[i])
                    => \A j \in DOMAIN hits :
                           SameScore(ScoreOf(p, cs[i]), hits[j].score)
                           => IdLess(hits[j].chunkId, cs[i].id)

\* C11: the result count k is clamped into [1, 20] for every requested value
\* (0 is served as 1, 999 as 20), and a successful search never returns more
\* hits than the clamped k.
C11_ClampK ==
    \A p \in Procs :
        (IsSearch(p) /\ Succeeded(p))
        => Len(resp[p].hits) <= Max(1, Min(20, req[p].topK))

\* the search named a docIds list that is not empty and names no id twice
HasSubset(p) ==
    /\ IsSearch(p) /\ Validate(req[p]) = "ok"
    /\ "docIds" \in DOMAIN req[p]
    /\ Len(req[p].docIds) > 0
    /\ \A i, j \in DOMAIN req[p].docIds : req[p].docIds[i] = req[p].docIds[j] => i = j

\* the search named no docIds: the field is absent or the list is empty
HasNoSubset(p) ==
    /\ IsSearch(p) /\ Validate(req[p]) = "ok"
    /\ ("docIds" \in DOMAIN req[p] => Len(req[p].docIds) = 0)

\* C12: a search over a docIds subset returns hits of that subset only, and
\* they are the ranked top k of the stored chunks of the subset, whatever the
\* chunks of the other documents score.
C12_SubsetOnly ==
    \A p \in Procs :
        (HasSubset(p) /\ Succeeded(p))
        => LET S == {req[p].docIds[j] : j \in DOMAIN req[p].docIds}
               pool == {id \in DOMAIN chunks : chunks[id].docId \in S}
               hits == resp[p].hits
           IN /\ \A j \in DOMAIN hits :
                    /\ hits[j].docId \in S
                    /\ hits[j].chunkId \in pool
                    /\ hits[j].score = ScoreOf(p, chunks[hits[j].chunkId])
              /\ \A i, j \in DOMAIN hits : hits[i].chunkId = hits[j].chunkId => i = j
              /\ Len(hits) = Min(topK(req[p]), Cardinality(pool))
              /\ \A j \in 1..(Len(hits) - 1) :
                    ~Greater(hits[j + 1].score, hits[j].score)
              /\ \A id \in pool :
                    ~Returned(p, chunks[id])
                    => \A j \in DOMAIN hits :
                           ~Greater(ScoreOf(p, chunks[id]), hits[j].score)

\* a search of d1 alone was answered with hits while a chunk of d2 scores
\* strictly higher than the best of them
C12_Witness ==
    /\ HasSubset("r1") /\ Succeeded("r1")
    /\ req["r1"].docIds = <<"d1">>
    /\ Len(resp["r1"].hits) >= 2
    /\ \E id \in ByDocId(chunks, "d2") :
          Greater(ScoreOf("r1", chunks[id]), resp["r1"].hits[1].score)

\* C13: a valid search that names no docIds over a store without documents is
\* answered ok with an empty hit list, without a provider call.
C13_EmptyStoreSearch ==
    \A p \in Procs :
        (HasNoSubset(p) /\ documents = <<>> /\ pc[p] # "listDocuments")
        => /\ Answered(p)
           /\ resp[p] = [ok |-> TRUE, hits |-> <<>>]
           /\ calls[p] = <<>>

\* a search without the docIds field was answered over the empty store
C13_Witness ==
    /\ HasNoSubset("r1") /\ Answered("r1")
    /\ "docIds" \notin DOMAIN req["r1"]
    /\ documents = <<>> /\ chunks = <<>>
\* C16: a search whose query embedding call failed is answered ok:false with
\* the provider's error, never ok:true with an empty or partial hit list.
C16_SearchEmbedFailureFails ==
    \A p \in Procs :
        (IsSearch(p) /\ \E k \in DOMAIN calls[p] : ~calls[p][k].ok)
        => /\ Answered(p)
           /\ resp[p] = [ok |-> FALSE, error |-> "Embeddings HTTP 500"]

\* the query embedding of a search over stored chunks failed
C16_Witness ==
    /\ IsSearch("r1") /\ Answered("r1")
    /\ Len(calls["r1"]) = 1 /\ ~calls["r1"][1].ok
    /\ Len(docs["r1"]) > 0
    /\ ByDocId(chunks, docs["r1"][1]) # {}

\* C17: getChunksForDocs(docIds) is the union of the chunks of the ids: each
\* stored chunk of a listed id once, no other chunk, also when an id is listed
\* twice; nothing for no ids.
C17_ChunksUnion ==
    /\ getChunksForDocs(chunks, <<>>) = <<>>
    /\ \A p \in Procs :
          (IsSearch(p) /\ Succeeded(p))
          => LET S == {docs[p][j] : j \in DOMAIN docs[p]}
                 found == cands[p]
             IN /\ \A i \in DOMAIN found :
                      found[i].id \in DOMAIN chunks /\ found[i] = chunks[found[i].id]
                /\ \A id \in DOMAIN chunks :
                      Cardinality({i \in DOMAIN found : found[i].id = id})
                        = IF chunks[id].docId \in S THEN 1 ELSE 0
\* a request the contract calls invalid: a search without a query or with a
\* blank one, an indexing request with no chunks or without a document id or
\* name, a delete without a document id
InvalidRequest(m) ==
    CASE m.type = "RAG_SEARCH" -> Trim(m.query) = ""
      [] m.type = "RAG_INDEX_DOCUMENT" ->
           Len(m.chunks) = 0 \/ m.doc.id = "" \/ m.doc.name = ""
      [] m.type = "RAG_DELETE_DOCUMENT" -> m.docId = ""
      [] OTHER -> FALSE

\* C14: an invalid request is answered ok:false at once: its handler never
\* calls the provider, never opens a transaction, never reads the store, and
\* both object stores are what they were when the message arrived.
C14_InvalidRejected ==
    \A p \in Procs :
        InvalidRequest(req[p])
        => /\ Answered(p)
           /\ ~resp[p].ok
           /\ calls[p] = <<>>
           /\ tx[p] = NoTx
           /\ docs[p] = <<>> /\ cands[p] = <<>>
           /\ documents = before.documents
           /\ chunks = before.chunks

\* an indexing request without chunks was rejected over a store that holds a
\* document
C14_Witness ==
    /\ IsIndex("r1") /\ Len(req["r1"].chunks) = 0
    /\ Answered("r1")
    /\ documents # <<>> /\ chunks # <<>>

\* C15: a request that got a provider response not holding exactly one vector
\* per input is answered ok:false, and an indexing run that got one has
\* persisted nothing.
C15_VectorCountChecked ==
    \A p \in Procs :
        (/\ Answered(p)
         /\ \E k \in DOMAIN calls[p] :
               calls[p][k].ok /\ calls[p][k].vectors # calls[p][k].inputs)
        => /\ ~resp[p].ok
           /\ documents = before.documents
           /\ chunks = before.chunks

\* C20: no retries: an indexing run sends each batch once, in order; a failed
\* provider call is the run's last, the run is answered ok:false and has
\* written nothing; a search calls the provider at most once.
C20_NoRetries ==
    \A p \in Procs :
        /\ IsIndex(p)
           => /\ \A k \in DOMAIN calls[p] : calls[p][k].start = (k - 1) * BATCH
              /\ \A k \in DOMAIN calls[p] : calls[p][k].start < Len(req[p].chunks)
              /\ \A k \in DOMAIN calls[p] :
                    ~calls[p][k].ok
                    => /\ k = Len(calls[p])
                       /\ Answered(p) /\ ~resp[p].ok
                       /\ tx[p] = NoTx
                       /\ documents = before.documents
                       /\ chunks = before.chunks
        /\ IsSearch(p) => Len(calls[p]) <= 1

\* the second batch of a run failed after the first had been embedded, over a
\* store that holds a document
C20_Witness ==
    /\ IsIndex("r1") /\ Answered("r1")
    /\ Len(calls["r1"]) = 2
    /\ calls["r1"][1].ok /\ ~calls["r1"][2].ok
    /\ calls["r1"][2].start = BATCH
    /\ documents # <<>>
\* the chunk ids a step of the store writes: new ones and changed ones
Written == {id \in DOMAIN chunks' : id \notin DOMAIN chunks \/ chunks'[id] # chunks[id]}

\* the records of run p's putChunks call that search q read
SeenBy(q, p) ==
    {j \in DOMAIN chunkRecords[p] :
        \E i \in DOMAIN cands[q] : cands[q][i] = chunkRecords[p][j]}

\* C18: putChunks is one write: a step of the store that writes chunk records
\* writes every record of one call; a call that fails writes none; and a
\* search reads the chunks in one step of the store, with no putChunks call
\* in progress, so it has read none or all of the records of any call.
C18_PutChunksAtomic ==
    [][/\ Written # {}
          => \E p \in Procs :
                /\ IsIndex(p) /\ pc[p] = "putChunksDone"
                /\ pc'[p] = "done" /\ resp'[p].ok
                /\ \A j \in DOMAIN chunkRecords[p] :
                      /\ chunkRecords[p][j].id \in DOMAIN chunks'
                      /\ chunks'[chunkRecords[p][j].id] = chunkRecords[p][j]
       /\ \A p \in Procs :
             (IsIndex(p) /\ pc[p] = "putChunksDone" /\ pc'[p] = "done" /\ ~resp'[p].ok)
             => chunks' = chunks
       /\ \A q \in Procs :
             (IsSearch(q) /\ pc[q] = "getChunksForDocs" /\ pc'[q] = "done")
             => /\ cands'[q] = getChunksForDocs(chunks, docs[q])
                /\ chunks' = chunks
                /\ \A p \in Procs : tx[p].chunkPuts = <<>>]_vars

\* a search that arrived while an indexing run of two chunks was in flight has
\* read both chunks of the run
C18_Witness ==
    /\ IsIndex("r1") /\ Succeeded("r1")
    /\ IsSearch("r2") /\ Succeeded("r2")
    /\ Len(chunkRecords["r1"]) = 2
    /\ SeenBy("r2", "r1") = {1, 2}

\* what a run of message m leaves in the two object stores
RunDocuments(dstore, m) == putDocument(dstore, MakeDocRecord(m, m.chunks, 0))
RunChunks(ch, m) ==
    LET texts == [j \in DOMAIN m.chunks |-> m.chunks[j].text]
        reply == CHOOSE r \in openRouterEmbeddings(texts, Provider(OneVector, {0})) : r.ok
    IN CommitChunks(ch, [NoTx EXCEPT !.chunkPuts =
                            BatchRecords(m, m.chunks, reply.data, 0)])

\* C19: two indexing runs of different ids, however interleaved, leave the
\* store that running them one after the other leaves (createdAt aside), and
\* every chunk of a run is stored under the id of its run.
C19_IndependentRuns ==
    \A p, q \in Procs :
        (/\ now = 2
         /\ IsIndex(p) /\ Succeeded(p)
         /\ IsIndex(q) /\ Succeeded(q)
         /\ req[p].doc.id # req[q].doc.id)
        => /\ Unstamped(documents)
                = Unstamped(RunDocuments(RunDocuments(<<>>, req[p]), req[q]))
           /\ Unstamped(chunks) = Unstamped(RunChunks(RunChunks(<<>>, req[p]), req[q]))
           /\ \A j \in DOMAIN req[p].chunks :
                 /\ req[p].chunks[j].id \in DOMAIN chunks
                 /\ chunks[req[p].chunks[j].id].docId = req[p].doc.id
                 /\ chunks[req[p].chunks[j].id].text = req[p].chunks[j].text

\* two runs of different ids have overlapped: the first was embedded after the
\* second had arrived, and both have been answered ok
C19_Witness ==
    /\ now = 2
    /\ IsIndex("r1") /\ Succeeded("r1")
    /\ IsIndex("r2") /\ Succeeded("r2")
    /\ req["r1"].doc.id # req["r2"].doc.id
    /\ req["r1"].doc.id \in DOMAIN documents
    /\ documents[req["r1"].doc.id].createdAt = 2
\* C26: all stored chunks hold vectors of one dimension (every document of
\* the store names the one embeddingModel).
C26_OneDimension ==
    \A a, b \in DOMAIN chunks :
        Len(chunks[a].embeddingF32.num) = Len(chunks[b].embeddingF32.num)

AllZero(vec) == \A i \in DOMAIN vec : vec[i] = 0

\* the vector the provider returned for the j-th chunk record of run p
ReturnedFor(p, j) == calls[p][((j - 1) \div BATCH) + 1].data[((j - 1) % BATCH) + 1]

\* C27: toNormalizedF32 of an all-zero vector, of any length, is the all-zero
\* vector of that length over the divisor 1: every chunk record and every query
\* vector made from an all-zero provider vector is such a vector.
C27_ZeroStaysZero ==
    \A p \in Procs :
        /\ \A j \in DOMAIN chunkRecords[p] :
              AllZero(ReturnedFor(p, j))
              => /\ chunkRecords[p][j].embeddingF32.den = 1
                 /\ AllZero(chunkRecords[p][j].embeddingF32.num)
                 /\ Len(chunkRecords[p][j].embeddingF32.num) = Len(ReturnedFor(p, j))
        /\ (IsSearch(p) /\ pc[p] \in {"getChunksForDocs", "done"}
               /\ Len(calls[p]) = 1 /\ calls[p][1].vectors > 0
               /\ AllZero(calls[p][1].data[1]))
           => /\ qVec[p].den = 1
              /\ AllZero(qVec[p].num)
              /\ Len(qVec[p].num) = Len(calls[p][1].data[1])

\* chunks embedded as zero vectors of one component and of none are stored
C27_Witness ==
    /\ \E id \in DOMAIN chunks : chunks[id].embeddingF32 = [num |-> <<0>>, den |-> 1]
    /\ \E id \in DOMAIN chunks : chunks[id].embeddingF32 = [num |-> <<>>, den |-> 1]
\* C28: a successful indexing run of n chunks has called the provider once
\* per batch of at most BATCH chunks, in ascending order, and has stored the
\* j-th vector of a batch's response with the j-th chunk of the batch: the
\* records keep the order, ids and texts of the request, and the stored and
\* the returned chunkCount are n.
C28_BatchesInOrder ==
    \A p \in Procs :
        (IsIndex(p) /\ Succeeded(p))
        => LET m == req[p]
               n == Len(m.chunks)
           IN /\ Len(calls[p]) = (n + BATCH - 1) \div BATCH
              /\ \A k \in DOMAIN calls[p] :
                    /\ calls[p][k].start = (k - 1) * BATCH
                    /\ calls[p][k].inputs = Min(BATCH, n - calls[p][k].start)
              /\ Len(chunkRecords[p]) = n
              /\ \A j \in 1..n :
                    /\ chunkRecords[p][j].id = m.chunks[j].id
                    /\ chunkRecords[p][j].docId = m.doc.id
                    /\ chunkRecords[p][j].text = m.chunks[j].text
                    /\ chunkRecords[p][j].pageStart = m.chunks[j].pageStart
                    /\ chunkRecords[p][j].pageEnd = m.chunks[j].pageEnd
                    /\ chunkRecords[p][j].embeddingF32
                         = toNormalizedF32(ReturnedFor(p, j))
                    /\ m.chunks[j].id \in DOMAIN chunks
                    /\ chunks[m.chunks[j].id] = chunkRecords[p][j]
              /\ resp[p].chunkCount = n
              /\ m.doc.id \in DOMAIN documents
              /\ documents[m.doc.id].chunkCount = n

\* a run of a full batch and a batch of one chunk has succeeded, with
\* different vectors for its first two chunks
C28_Witness ==
    /\ IsIndex("r1") /\ Succeeded("r1")
    /\ Len(req["r1"].chunks) = BATCH + 1
    /\ Len(calls["r1"]) = 2
    /\ calls["r1"][1].inputs = BATCH /\ calls["r1"][2].inputs = 1
    /\ chunkRecords["r1"][1].embeddingF32 # chunkRecords["r1"][2].embeddingF32

\* the error messages a failed provider call of the batch at start can end with
ErrorsOfBatch(m, start) ==
    LET batch == SubSeq(m.chunks, start + 1, Min(start + BATCH, Len(m.chunks)))
    IN {r.error : r \in {x \in openRouterEmbeddings([j \in 1..Len(batch) |-> batch[j].text],
                                                     Provider(RawVectors, {0})) : ~x.ok}}

\* C30: the error of an indexing run whose provider call failed tells which
\* batch failed: it is no error that a failure of another batch of the run
\* would have produced.
C30_ErrorNamesBatch ==
    \A p \in Procs :
        (IsIndex(p) /\ Answered(p) /\ Len(calls[p]) > 0 /\ ~calls[p][Len(calls[p])].ok)
        => \A start \in {(k - 1) * BATCH : k \in 1..((Len(req[p].chunks) + BATCH - 1) \div BATCH)} :
               start # calls[p][Len(calls[p])].start
               => resp[p].error \notin ErrorsOfBatch(req[p], start)
\* C29: every hit of a successful search carries the name of the stored
\* document of its docId, as the store holds it when the search is answered.
C29_HitNamesDocument ==
    [][\A q \in Procs :
          (IsSearch(q) /\ pc[q] = "getChunksForDocs" /\ pc'[q] = "done" /\ resp'[q].ok)
          => \A j \in DOMAIN resp'[q].hits :
                 resp'[q].hits[j].docId \in DOMAIN documents'
                 => resp'[q].hits[j].docName
                      = documents'[resp'[q].hits[j].docId].name]_vars
\* C21: every chunk has pageStart <= pageEnd, and neither bound of a chunk is
\* below that of the chunk before it.
C21_RangesOrdered ==
    upload.done
    => LET cs == upload.chunks
       IN /\ \A i \in DOMAIN cs : cs[i].pageStart <= cs[i].pageEnd
          /\ \A i \in 1..(Len(cs) - 1) :
                /\ cs[i].pageStart <= cs[i + 1].pageStart
                /\ cs[i].pageEnd <= cs[i + 1].pageEnd

\* three pages were cut into three chunks
C21_Witness ==
    /\ upload.done
    /\ Len(upload.pages) = 3
    /\ Len(upload.chunks) = 3
    /\ upload.chunks[3].pageStart = 3

\* C22: the page ranges of the chunks cover every input page, and the range
\* of a chunk starts no later than the page after the range before it.
C22_PagesCovered ==
    upload.done
    => LET cs == upload.chunks
       IN /\ \A k \in DOMAIN upload.pages :
                \E i \in DOMAIN cs :
                    cs[i].pageStart <= upload.pages[k].page
                    /\ upload.pages[k].page <= cs[i].pageEnd
          /\ \A i \in 1..(Len(cs) - 1) : cs[i + 1].pageStart <= cs[i].pageEnd + 1

\* three pages were cut into two chunks, the first of two pages
C22_Witness ==
    /\ upload.done
    /\ Len(upload.pages) = 3
    /\ Len(upload.chunks) = 2
    /\ upload.chunks[1].pageEnd = 2
    /\ upload.chunks[2].pageStart = 3

\* the characters of all page texts
RECURSIVE TotalText(_)
TotalText(pages) ==
    IF pages = <<>> THEN 0 ELSE Len(Head(pages).text) + TotalText(Tail(pages))

\* C23: pages whose texts together are no longer than maxChars give exactly
\* one chunk.
C23_OneChunkIfFits ==
    (upload.done /\ upload.pages # <<>> /\ TotalText(upload.pages) <= upload.maxChars)
    => Len(upload.chunks) = 1

\* C24: each chunk but the first begins with the last overlapChars characters
\* of the text of the chunk before it, with all of that text when it is
\* shorter.
C24_OverlapPrefix ==
    upload.done
    => \A i \in 1..(Len(upload.chunks) - 1) :
           LET tail == Overlap(upload.chunks[i].text, upload.overlapChars)
               later == upload.chunks[i + 1].text
           IN /\ Len(later) >= Len(tail)
              /\ SubSeq(later, 1, Len(tail)) = tail

\* C25: no chunk has an empty trimmed text.
C25_NoEmptyChunk ==
    upload.done
    => \A i \in DOMAIN upload.chunks : TrimText(upload.chunks[i].text) # <<>>

\* no page gives no chunk, and pages without text give a chunk of their markers
C25_Witness ==
    \/ upload.done /\ upload.pages = <<>> /\ upload.chunks = <<>>
                   /\ upload.overlapChars = 0
    \/ /\ upload.done /\ Len(upload.pages) = 2
       /\ \A k \in DOMAIN upload.pages : upload.pages[k].text = <<>>
       /\ Len(upload.chunks) = 1

\* C31: when the marked text of every page fits within maxChars, no chunk is
\* longer than maxChars, the overlap counted in.
C31_ChunksBounded ==
    (/\ upload.done
     /\ \A k \in DOMAIN upload.pages : Len(Addition(upload.pages[k])) <= upload.maxChars)
    => \A i \in DOMAIN upload.chunks : Len(upload.chunks[i].text) <= upload.maxChars

\* pat occurs in str
Contains(str, pat) ==
    \E a \in 0..(Len(str) - Len(pat)) : SubSeq(str, a + 1, a + Len(pat)) = pat

\* C32: a page whose marker stands in the text of a chunk, carried over by
\* the overlap or not, has its number within pageStart..pageEnd of the chunk.
C32_RangeHoldsTextPages ==
    upload.done
    => \A i \in DOMAIN upload.chunks :
           \A k \in DOMAIN upload.pages :
               Contains(upload.chunks[i].text, TrimText(PageMarker(upload.pages[k].page)))
               => /\ upload.chunks[i].pageStart <= upload.pages[k].page
                  /\ upload.pages[k].page <= upload.chunks[i].pageEnd

IsList(p) == req[p].type = "RAG_LIST_DOCUMENTS"

\* C33: no step of a RAG_SEARCH or RAG_LIST_DOCUMENTS request, from its
\* arrival to its answer, changes the documents or the chunks, and none
\* leaves a write pending.
C33_ReadOnly ==
    [][\A p \in Procs :
          ((IsSearch(p)' \/ IsList(p)')
           /\ <<pc[p], req[p], resp[p]>>' # <<pc[p], req[p], resp[p]>>)
          => /\ documents' = documents
             /\ chunks' = chunks
             /\ tx' = tx]_vars

\* a search was answered with a hit, the store as it was
C33_Witness ==
    \E p \in Procs :
        /\ IsSearch(p) /\ Answered(p) /\ resp[p].ok
        /\ Len(resp[p].hits) = 1
        /\ DOMAIN chunks # {}

InFlight == {t \in DOMAIN content.tasks : content.tasks[t].pc \in {"search", "chat"}}

\* C35: at most one prompt run is in flight at any time, and runningRef is
\* true exactly while one is.
C35_OneRunInFlight ==
    /\ Cardinality(InFlight) <= 1
    /\ content.runningRef <=> InFlight # {}

\* C36: the two RUN_PROMPT messages of one keyboard command trigger the
\* prompt at most once.
C36_OneTriggerPerCommand == content.triggered <= 1

\* the hits of a RAG_SEARCH response, none when it failed or did not arrive
HitsOf(res) == IF res # Undefined /\ res.ok THEN res.hits ELSE <<>>

\* C37: the chat request of a run is sent whatever the context search
\* returned; its prompt is the filled template alone when the search failed,
\* did not answer or gave no hit, and otherwise the filled template followed
\* by the context block with one label line per hit, in the order of the hits.
C37_PromptAlwaysBuilt ==
    /\ [](\A t \in DOMAIN content.tasks :
            content.tasks[t].pc = "chat"
            => LET task == content.tasks[t]
                   hits == HitsOf(task.res)
                   ctx == task.promptText.ctx
               IN /\ task.promptText.base = fillTemplate(task.prompt.template, task.input)
                  /\ hits = <<>> => ctx = <<>>
                  /\ hits # <<>>
                       => /\ Len(ctx) = 3 * Len(hits) + 2
                          /\ ctx[1].line = "header"
                          /\ ctx[Len(ctx)].line = "footer"
                          /\ \A j \in DOMAIN hits :
                                /\ ctx[3 * j - 1].line = "label"
                                /\ ctx[3 * j - 1].name \in {hits[j].docName, hits[j].docId}
                                /\ ctx[3 * j - 1].name # "undefined"
                                /\ ctx[3 * j - 1].pages[1] = hits[j].pageStart
                                /\ ctx[3 * j - 1].pages[Len(ctx[3 * j - 1].pages)]
                                     = hits[j].pageEnd)
    /\ [][\A t \in DOMAIN content.tasks :
             (content.tasks[t].pc = "search" /\ content' # content)
             => (t \in DOMAIN content'.tasks /\ content'.tasks[t].pc = "chat")]_vars

\* a run whose context search failed has sent its chat request with the
\* filled template alone
C37_Witness ==
    \E t \in DOMAIN content.tasks :
        /\ content.tasks[t].pc = "chat"
        /\ content.tasks[t].res = [ok |-> FALSE, error |-> "Missing query"]
        /\ content.tasks[t].promptText =
              [base |-> <<"Explain:", "sel">>, ctx |-> <<>>]
====
